---- MODULE Spec2Model ----
(***************************************************************************)
(* Model of the build orchestration core of ahriman:                       *)
(*   - the dependency tree resolver   (ahriman/core/tree.py)               *)
(*   - the update loop                (ahriman/application/application.py) *)
(*   - the command wrapper and lock   (ahriman/application/handlers)       *)
(***************************************************************************)
EXTENDS Integers, Sequences, FiniteSets, TLC

\* ------------------------------------------------------------------------
\* Bounds
\* ------------------------------------------------------------------------
\* number of runs of the application which may be alive at the same time
NumRuns == 2

\* package bases of the status registry
NumKnown == 2

\* readings of the clock
MaxClock == 2

\* packages of the repository which change detection examines
NumChecked == 2

\* largest epoch of a version
MaxEpoch == 1

\* largest number in a segment of pkgver
MaxSegment == 1

\* largest pkgrel of a version
MaxRel == 2

\* number of migration modules the package may hold (m000 to m005)
MaxMigrations == 6

\* number of package names the remote may answer a search with
NumFound == 2

\* number of search terms handed to multisearch
MaxTerms == 3

\* number of trigger loaders created
NumLoaders == 3

\* number of package names dependencies are declared among
NumDeps == 2

\* number of keys of the global context
NumKeys == 2

\* number of package names of the AUR dependencies are looked up among
NumAur == 2

\* number of package bases handed to the resolver
NumPkgs == 3
\* total number of dependency names declared by all leaves together
MaxEdges == 3

\* ------------------------------------------------------------------------
\* Data universe of the resolver
\* ------------------------------------------------------------------------
\* package bases; the order of the integers stands for the order of the
\* base names (the sort key of Tree.levels)
Bases == 1..NumPkgs
\* a name which is no sub-package of any base: it can only be provided
Virtual == NumPkgs + 1
\* names which may appear in a dependency set
Names == 1..Virtual
\* value of `provider` when no package provides the virtual name
NoProvider == NumPkgs - NumPkgs

Range(s) == {s[i] : i \in DOMAIN s}

RECURSIVE SubsetsUpTo(_, _)
\* all subsets of S with at most k elements
SubsetsUpTo(S, k) ==
    IF k = 0 THEN {{}}
    ELSE LET smaller == SubsetsUpTo(S, k - 1)
         IN  smaller \cup {s \cup {x} : s \in smaller, x \in S}

\* all dependency declarations: sets of (base, name) pairs
EdgeSets == SubsetsUpTo(Bases \X Names, MaxEdges)

\* all orders in which the same packages can be supplied
Orders == {s \in [Bases -> Bases] : \A i, j \in Bases : s[i] = s[j] => i = j}

VARIABLES
    \* --- resolver (Tree / Leaf) ---
    dependencies,   \* Leaf.dependencies of the leaf of every base
    provider,       \* the base whose description provides Virtual, or NoProvider
    leaves,         \* Tree.leaves
    tpc,            \* position inside Tree.levels
    unprocessed,    \* local of Tree.levels
    unsorted,       \* local of Tree.levels
    current_num,    \* loop variable of the deferral pass
    result,         \* value returned by Tree.levels
    previous,       \* <<result>> of the preceding resolution of the same packages
    \* --- update loop (Application.update) ---
    upc,            \* position inside Application.update
    tree_levels,    \* tree.levels() of the updates
    num,            \* loop variable: number of the level in work, 0 before the loop
    pending,        \* packages of the level which process_build has not tried yet
    built,          \* Result of the running process_build
    results,        \* Result returned by process_build, level by level
    log,            \* calls made on the repository so far, in order
    \* --- command wrapper (Handler.call) and instance lock ---
    hpc,            \* position of every run inside Handler.call
    architecture,   \* architecture argument of every run
    force,          \* args.force of every run
    raised,         \* exception which left the try block of the run, or "none"
    returned,       \* value returned by Handler.call of the run, or "none"
    lock_file,      \* whether the lock of the (root, architecture) pair exists
    overridden,     \* whether a held lock of the pair was taken over by force
    entered,        \* times Lock.__enter__ of the run's call has succeeded
    exited,         \* times Lock.__exit__ of the run's call was executed
    body,           \* times cls.run of the run's call was entered
    \* --- Handler.execute ---
    epc,            \* position inside Handler.execute
    requested,      \* architectures returned by extract_architectures
    args_force,     \* args.force of the invocation
    todo,           \* (args, architecture) tasks the pool has not started yet
    called,         \* times Handler.call was started for every architecture
    collected,      \* <<architecture, value>> of every call which has returned
    exit_code,      \* value returned by Handler.execute
    \* --- status registry and its web view (PackageView) ---
    known,          \* registry: <<BuildStatus>> of every base it holds, else <<>>
    now,            \* the clock read by the BuildStatus default timestamp
    request,        \* the request PackageView handled last
    response,       \* the HTTP response raised for it
    error,          \* the error behind an HTTPBadRequest response, or "none"
    written,        \* <<timestamp>> of the latest registry write for every base
    \* --- Package.is_outdated ---
    vpc,            \* position inside is_outdated
    self_version,   \* self.version
    remote_version, \* local of is_outdated: the version self.version is compared to
    calculated,     \* whether remote_version is remote.actual_version(paths)
    outdated,       \* value returned by is_outdated
    \* --- change detection (Application.get_updates and its lanes) ---
    gpc,            \* position inside get_updates
    no_aur,         \* argument of get_updates
    no_manual,      \* argument of get_updates
    local_version,  \* version of every package of the repository
    remotes,        \* <<version>> the upstream lookup of the base gives, <<>> if it fails
    queue,          \* bases queued manually
    checked,        \* packages the upstream lane has examined
    statuses,       \* <<base, status>> written by the running detection, in order
    aur_updates,    \* list returned by updates_aur
    manual_updates, \* list returned by updates_manual
    updates,        \* list returned by get_updates
    first_run,      \* <<lists>> of the preceding run of get_updates
    \* --- Package.is_outdated of a package with build dates ---
    build_dates,    \* build_date of the archives of the local package which have one
    utcnow,         \* the time read by is_outdated
    vcs_allowed_age, \* argument of is_outdated
    calculate_version, \* argument of is_outdated
    remote_is_vcs,         \* whether the remote package is a VCS package
    stored_version, \* remote.version
    refreshed,      \* whether actual_version has loaded the sources of the remote
    \* --- Add.run and the exit status of the command ---
    apc,            \* position of the add command
    args_now,       \* args.now: build the added packages at once
    args_exit_code, \* args.exit_code: treat an empty result as a failure
    to_build,       \* the package bases handed to application.update
    add_result,     \* the Result application.update returned
    add_raised,     \* what Add.run raised: "none", "ExitCode" or "Exception"
    add_status,     \* the exit status Handler.execute returned
    \* --- Migrations.run and the database it migrates ---
    mpc,            \* position of the migration run
    user_version,   \* pragma user_version as committed in the database
    applied,        \* indices of the migrations committed, in the order applied
    expected_version, \* len(migrations) of the running program
    next_index,     \* index of the migration the loop is about to apply
    tx_applied,     \* indices applied in the open transaction, in order
    migration_raised, \* whether run raised
    \* --- Remote.multisearch ---
    spc,            \* position of the search
    keywords,       \* the search terms: their length class and what matches them
    term_index,     \* number of terms the loop has gone through
    found,          \* names of the packages in the dictionary
    search_result,  \* the names returned
    \* --- TriggerLoader: on_start, on_stop and the teardown ---
    lpc,            \* per loader: "none", "created" or "deleted"
    on_stop_requested, \* per loader: the _on_stop_requested flag
    started,        \* per loader: the triggers whose on_start has been called
    stopped,        \* per loader: the triggers whose on_stop has been called
    stopped_at_exit, \* per loader: the triggers whose on_stop the teardown called
    \* --- Package.full_depends ---
    fpc,            \* position inside full_depends
    dep_entries,    \* the repository package and the sync database package
    dep_map,        \* local dependencies: name or provided name -> depends
    self_depends,   \* self.depends
    fd_result,      \* local result
    current_depends, \* local current_depends
    passes,         \* number of passes of the while loop
    full_depends_result, \* the list returned
    \* --- _Context: the global context ---
    content,        \* _Context._content: key -> value, NoValue when not set
    first_stored,   \* key -> the first value ever stored under it
    ctx_call,       \* the last call: operation, key, return type, value, strict
    ctx_raised,     \* what the last call raised, "none" when it returned
    ctx_got,        \* what the last get returned
    \* --- WebClient: requests to the status service ---
    wpc,            \* position inside the method of the client
    web_call,       \* the method called, the setting and what the service does
    web_exception,  \* class of the exception raised in the with body, or "none"
    web_raised,     \* whether the method raised
    web_logged,     \* whether the failure was logged
    web_returned,   \* what the method returned
    \* --- Application.with_dependencies ---
    wdpc,           \* position inside with_dependencies
    process_dependencies, \* argument of with_dependencies
    known_packages, \* names of the repository and of the pacman databases
    aur_base,       \* AUR: name -> package base of the package
    aur_depends,    \* AUR: name -> depends and make depends of the package
    own_depends,    \* depends_build of the package passed in
    with_dependencies, \* local dictionary: base -> package, NoPackage if none
    missing,        \* the missing dependencies still to fetch in this pass
    with_result     \* the bases returned

treeVars == <<dependencies, provider, leaves, tpc, unprocessed, unsorted,
              current_num, result, previous>>

updVars == <<upc, tree_levels, num, pending, built, results, log>>

callVars == <<hpc, architecture, force, raised, returned, lock_file, overridden,
              entered, exited, body>>

execVars == <<epc, requested, args_force, todo, called, collected, exit_code>>

regVars == <<known, now, request, response, error, written>>

verVars == <<vpc, self_version, remote_version, calculated, outdated>>

detVars == <<gpc, no_aur, no_manual, local_version, remotes, queue, checked,
             statuses, aur_updates, manual_updates, updates, first_run>>

freshVars == <<build_dates, utcnow, vcs_allowed_age, calculate_version, remote_is_vcs, stored_version, refreshed>>

addVars == <<apc, args_now, args_exit_code, to_build, add_result, add_raised, add_status>>

migVars == <<mpc, user_version, applied, expected_version, next_index, tx_applied, migration_raised>>

searchVars == <<spc, keywords, term_index, found, search_result>>

loaderVars == <<lpc, on_stop_requested, started, stopped, stopped_at_exit>>

dependsVars == <<fpc, dep_entries, dep_map, self_depends, fd_result, current_depends, passes, full_depends_result>>

ctxVars == <<content, first_stored, ctx_call, ctx_raised, ctx_got>>

webVars == <<wpc, web_call, web_exception, web_raised, web_logged, web_returned>>

wdVars == <<wdpc, process_dependencies, known_packages, aur_base, aur_depends, own_depends, with_dependencies, missing, with_result>>

vars == <<treeVars, updVars, callVars, execVars, regVars, verVars, detVars, freshVars, addVars, migVars, searchVars, loaderVars, dependsVars, ctxVars, webVars, wdVars>>

\* what the resolver leaves alone
notTree == <<updVars, callVars, execVars, regVars, verVars, detVars, freshVars, addVars, migVars, searchVars, loaderVars, dependsVars, ctxVars, webVars, wdVars>>

\* what the update loop leaves alone
notUpd == <<treeVars, callVars, execVars, regVars, verVars, detVars, freshVars, addVars, migVars, searchVars, loaderVars, dependsVars, ctxVars, webVars, wdVars>>

\* what Handler.call leaves alone
notCall == <<treeVars, updVars, execVars, regVars, verVars, detVars, freshVars, addVars, migVars, searchVars, loaderVars, dependsVars, ctxVars, webVars, wdVars>>

\* what Handler.execute and its calls leave alone
notExec == <<treeVars, updVars, regVars, verVars, detVars, freshVars, addVars, migVars, searchVars, loaderVars, dependsVars, ctxVars, webVars, wdVars>>

\* what the status registry leaves alone
notReg == <<treeVars, updVars, callVars, execVars, verVars, detVars, freshVars, addVars, migVars, searchVars, loaderVars, dependsVars, ctxVars, webVars, wdVars>>

\* what change detection leaves alone
notDet == <<treeVars, updVars, callVars, execVars, regVars, verVars, freshVars, addVars, migVars, searchVars, loaderVars, dependsVars, ctxVars, webVars, wdVars>>

\* what is_outdated leaves alone
notVer == <<treeVars, updVars, callVars, execVars, regVars, detVars, freshVars, addVars, migVars, searchVars, loaderVars, dependsVars, ctxVars, webVars, wdVars>>

\* what is_outdated of a package with build dates leaves alone (it sets the
\* versions compared and the answer as well)
notFresh == <<treeVars, updVars, callVars, execVars, regVars, detVars, addVars, migVars, searchVars, loaderVars, dependsVars, ctxVars, webVars, wdVars>>

\* what the add command leaves alone
notAdd == <<treeVars, updVars, callVars, execVars, regVars, verVars, detVars, freshVars, migVars, searchVars, loaderVars, dependsVars, ctxVars, webVars, wdVars>>

\* what a migration run leaves alone
notMig == <<treeVars, updVars, callVars, execVars, regVars, verVars, detVars, freshVars, addVars, searchVars, loaderVars, dependsVars, ctxVars, webVars, wdVars>>

\* what a search leaves alone
notSearch == <<treeVars, updVars, callVars, execVars, regVars, verVars, detVars, freshVars, addVars, migVars, loaderVars, dependsVars, ctxVars, webVars, wdVars>>

\* what the trigger loaders leave alone
notLoader == <<treeVars, updVars, callVars, execVars, regVars, verVars, detVars, freshVars, addVars, migVars, searchVars, dependsVars, ctxVars, webVars, wdVars>>

\* what full_depends leaves alone
notDepends == <<treeVars, updVars, callVars, execVars, regVars, verVars, detVars, freshVars, addVars, migVars, searchVars, loaderVars, ctxVars, webVars, wdVars>>

\* what the global context leaves alone
notCtx == <<treeVars, updVars, callVars, execVars, regVars, verVars, detVars, freshVars, addVars, migVars, searchVars, loaderVars, dependsVars, webVars, wdVars>>

\* what the web client leaves alone
notWeb == <<treeVars, updVars, callVars, execVars, regVars, verVars, detVars, freshVars, addVars, migVars, searchVars, loaderVars, dependsVars, ctxVars, wdVars>>

\* what with_dependencies leaves alone
notWd == <<treeVars, updVars, callVars, execVars, regVars, verVars, detVars, freshVars, addVars, migVars, searchVars, loaderVars, dependsVars, ctxVars, webVars>>

\* ------------------------------------------------------------------------
\* Package / Leaf
\* ------------------------------------------------------------------------
\* Package.packages.keys(): every base builds one package named like the base
packages(base) == {base}

\* PackageDescription.provides summed over the packages of the base
provides(base) == IF provider = base THEN {Virtual} ELSE {}

\* Package.packages_full
packages_full(base) == packages(base) \cup provides(base)

\* Leaf.items
items(leaf) == packages(leaf)

\* is_dependency with the two sides exchanged: does the leaf depend on the level
is_dependency_swapped(leaf, level) ==
    \E other \in Range(level) : dependencies[leaf] \cap items(other) # {}

\* Leaf.is_dependency
is_dependency(leaf, level) ==
    \E other \in Range(level) : dependencies[other] \cap items(leaf) # {}

\* Leaf.is_root
is_root(leaf, level) ==
    \A other \in Range(level) : dependencies[leaf] \cap items(other) = {}

\* ------------------------------------------------------------------------
\* Tree.levels
\* ------------------------------------------------------------------------
\* [leaf for leaf in unprocessed if leaf.is_root(unprocessed)]
roots(level) == SelectSeq(level, LAMBDA leaf : is_root(leaf, level))

\* [leaf for leaf in unprocessed if not leaf.is_root(unprocessed)]
rest(level) == SelectSeq(level, LAMBDA leaf : ~is_root(leaf, level))

\* the safety bound of the model on the peeling loop (the code has none)
MaxPeels == NumPkgs + 1

\* filter_fn with the test negated
filter_fn_negated(leaf, next_level) == ~is_dependency(leaf, next_level)

\* filter_fn of partition()
filter_fn(leaf, next_level) == is_dependency(leaf, next_level)

\* first component of partition(): materialised at once
partition_first(source, next_level) ==
    SelectSeq(source, LAMBDA leaf : filter_fn(leaf, next_level))

\* extend of an iterator which is exhausted: nothing is appended
extend_nothing(next_level, source) == next_level

\* extend without the filterfalse: the whole current level is appended
extend_all(next_level, source) == next_level \o source

RECURSIVE extend(_, _)
\* unsorted[next_num].extend(to_be_moved): to_be_moved is a lazy filterfalse
\* iterator, every leaf is tested against the list as extended so far
extend(next_level, source) ==
    IF source = <<>> THEN next_level
    ELSE LET leaf == Head(source)
         IN  extend(IF filter_fn(leaf, next_level) THEN next_level
                    ELSE Append(next_level, leaf),
                    Tail(source))

RECURSIVE insert(_, _)
insert(sortedLevel, leaf) ==
    IF sortedLevel = <<>> THEN <<leaf>>
    ELSE IF leaf < Head(sortedLevel) THEN <<leaf>> \o sortedLevel
         ELSE <<Head(sortedLevel)>> \o insert(Tail(sortedLevel), leaf)

\* the level left in the order of the input
sorted_not(level) == level

RECURSIVE sorted(_)
\* sorted(level, key=package.base): stable, ascending
sorted(level) ==
    IF level = <<>> THEN <<>>
    ELSE insert(sorted(SubSeq(level, 1, Len(level) - 1)), level[Len(level)])

\* the returned list comprehension
final(levels) ==
    LET kept == SelectSeq(levels, LAMBDA level : level # <<>>)
    IN  [i \in 1..Len(kept) |-> sorted(kept[i])]

\* ------------------------------------------------------------------------
\* Application.update: data
\* ------------------------------------------------------------------------
RECURSIVE ascending(_)
\* the packages of a level in the order Tree.levels returns them
ascending(S) ==
    IF S = {} THEN <<>>
    ELSE LET least == CHOOSE x \in S : \A y \in S : x <= y
         IN  <<least>> \o ascending(S \ {least})

RECURSIVE LevelListsOf(_)
\* every list of levels Tree.levels can return for the packages S:
\* non-empty levels, each package in one level, each level ascending
LevelListsOf(S) ==
    IF S = {} THEN {<<>>}
    ELSE UNION {{<<ascending(first)>> \o others : others \in LevelListsOf(S \ first)} :
                first \in (SUBSET S) \ {{}}}

\* the lists of levels for every set of updates
LevelLists == UNION {LevelListsOf(S) : S \in SUBSET Bases}

\* Result()
EmptyResult == [succeeded |-> <<>>, failed |-> <<>>]

\* a call recorded in the log; package is the base built, or the level number
\* itself for the calls which are not builds
Entry(kind, level, base, ok) == [kind |-> kind, level |-> level, base |-> base, ok |-> ok]

\* ------------------------------------------------------------------------
\* Handler.call and Lock: data
\* ------------------------------------------------------------------------
\* the concurrent invocations of the application on one repository root
Runs == 1..NumRuns

\* pkgver: one or two numeric segments
PkgVers == UNION {[1..n -> 0..MaxSegment] : n \in 1..2}

\* versions epoch:pkgver-pkgrel
Versions == [epoch : 0..MaxEpoch, pkgver : PkgVers, pkgrel : 1..MaxRel]

\* the version of a package which was never compared
NoVersion == [epoch |-> 0, pkgver |-> <<0>>, pkgrel |-> 1]

\* comparison of two numbers as vercmp reports it
cmp(a, b) == IF a < b THEN 0 - 1 ELSE IF a > b THEN 1 ELSE 0

\* rpmvercmp of two pkgver: the first different segment decides, then the
\* one with segments left is the newer
RECURSIVE rpmvercmp(_, _)

rpmvercmp(a, b) ==
    IF a = <<>> /\ b = <<>> THEN 0
    ELSE IF a = <<>> THEN 0 - 1
    ELSE IF b = <<>> THEN 1
    ELSE IF Head(a) # Head(b) THEN cmp(Head(a), Head(b))
    ELSE rpmvercmp(Tail(a), Tail(b))

\* pyalpm.vercmp: epoch, then pkgver, then pkgrel
vercmp(a, b) ==
    IF a.epoch # b.epoch THEN cmp(a.epoch, b.epoch)
    ELSE IF rpmvercmp(a.pkgver, b.pkgver) # 0 THEN rpmvercmp(a.pkgver, b.pkgver)
    ELSE cmp(a.pkgrel, b.pkgrel)

\* actual_version: the version of the package, for a VCS package the one
\* computed from its sources when that succeeds
actual_version(version, is_vcs, computed) ==
    IF is_vcs /\ computed # <<>> THEN computed[1] ELSE version

\* is_outdated with the versions compared the other way round
is_outdated_swapped(local, remote) == vercmp(remote, local) < 0

\* is_outdated with an equal version counted as out-of-date
is_outdated_not_newer(local, remote) == vercmp(local, remote) <= 0

\* the last two lines of is_outdated: vercmp(self.version, remote_version) < 0
is_outdated(local, remote) == vercmp(local, remote) < 0

\* the package bases of the repository, in the order of packages()
CheckedBases == 1..NumChecked

\* the versions the packages of the repository and their remotes have
CheckedVersions == {v \in Versions : v.epoch = 0 /\ v.pkgver = <<1>>}

\* the results of an upstream lookup: it raises, or gives the remote version
Lookups == {<<>>} \cup {<<v>> : v \in CheckedVersions}

\* the times a package may have been built at, and is_outdated may run at
Times == 0..MaxClock

\* min_vcs_build_date: utcnow().timestamp() - vcs_allowed_age
min_vcs_build_date(time, age) == time - age

\* is_newer_than with a build at the timestamp itself counted as newer
is_newer_than_or_equal(dates, timestamp) == \E date \in dates : date >= timestamp

\* is_newer_than: any archive with a build date was built after the timestamp
is_newer_than(dates, timestamp) == \E date \in dates : date > timestamp

\* the trigger loaders of the process
Loaders == 1..NumLoaders

\* the triggers a loader holds
Triggers == {"ReportTrigger", "UploadTrigger"}

\* the package names dependencies are declared among
DepNames == 1..NumDeps

\* a package description as full_depends reads it: its name, what it
\* provides (nothing or one name) and its depends
DepPackages ==
    [name : DepNames, provides : SubsetsUpTo(DepNames, 1), depends : SUBSET DepNames]

\* dependencies.get(package, []) after the two loading loops: the depends of
\* the last package loaded under that name or provided name
dependency_map(entries) ==
    [n \in DepNames |->
        LET loaded == {i \in DOMAIN entries :
                          n = entries[i].name \/ n \in entries[i].provides}
        IN  IF loaded = {} THEN {}
            ELSE entries[CHOOSE i \in loaded : \A j \in loaded : j <= i].depends]

\* ContextKey.key of the keys in use
ContextKeys == 1..NumKeys

\* ContextKey.return_type
ContextTypes == {"int", "str"}

\* the values stored: a value is an instance of exactly one of the types,
\* and there are two values of each
ContextValues == [type : ContextTypes, value : {"value", "other"}]

\* no value under the key
NoValue == [type |-> "none", value |-> "none"]

\* the calls of the context
ContextCalls ==
    [op : {"set", "get"}, key : ContextKeys, return_type : ContextTypes,
     value : ContextValues, strict : BOOLEAN]

\* no call yet
NoCall == [op |-> "none", key |-> 0, return_type |-> "none", value |-> NoValue,
           strict |-> FALSE]

\* isinstance(value, key.return_type)
isinstance(value, return_type) == value.type = return_type

\* the names of the packages of the AUR; a package base is named like one
\* of its packages
AurNames == 1..NumAur

\* no package under the base
NoPackage == [present |-> FALSE, packages |-> {}, depends_build |-> {}]

\* Package.from_aur(name): the base of the AUR package, with that one package
\* in it; depends_build leaves out the names the package has itself
from_aur(name, package_base, depends) ==
    [base |-> package_base,
     package |-> [present |-> TRUE, packages |-> {name},
                  depends_build |-> depends \ {name}]]

\* every order a set of names can be gone through in
OrdersOf(S) ==
    {s \in [1..Cardinality(S) -> S] : \A i, j \in DOMAIN s : s[i] = s[j] => i = j}

\* the package bases status requests are sent for
KnownBases == 1..NumKnown

\* BuildStatusEnum
BuildStatusEnum == {"unknown", "pending", "building", "failed", "success"}

\* the methods of WebClient which run their request inside __get_session
WebMethods == {"add", "update", "remove", "update_self", "get", "get_internal"}

\* where a request can fail: the connection, the status of the response
\* (raise_for_status), the body (response.json) or its content (from_json)
WebFailures == {"none", "connection", "status", "json", "content"}

\* the class of the exception a failure raises
exception_class(failure) ==
    IF failure \in {"connection", "status"} THEN "RequestException" ELSE "Exception"

\* the calls of the client: method, suppress_errors, the failure met and the
\* answer of the service (its packages and its own status)
WebCalls ==
    [method : WebMethods, suppress_errors : BOOLEAN, failure : WebFailures,
     packages : SUBSET KnownBases, status : BuildStatusEnum]

\* no call yet
NoWebCall == [method |-> "none", suppress_errors |-> FALSE, failure |-> "none",
              packages |-> {}, status |-> "unknown"]

\* the values the methods return: None, a list of packages, or a status
ReturnNone == [kind |-> "None", list |-> <<>>, status |-> "unknown"]
ReturnList(list) == [kind |-> "list", list |-> list, status |-> "unknown"]
ReturnStatus(status) == [kind |-> "InternalStatus", list |-> <<>>, status |-> status]

\* nothing returned (yet)
NoReturn == [kind |-> "none", list |-> <<>>, status |-> "unknown"]

\* __get_session which handles the exceptions of requests only
handled_requests_only(exception) == exception = "RequestException"

\* __get_session: except requests.RequestException, except Exception
handled(exception) == exception \in {"RequestException", "Exception"}

\* no request was handled yet
NoRequest == [op |-> "none", base |-> NumKnown - NumKnown, package |-> FALSE,
              valid |-> FALSE]

\* BuildStatus with the seconds of the day as its timestamp
BuildStatus_time_of_day(status) ==
    [status |-> status, timestamp |-> now % MaxClock]

\* BuildStatus(status): the timestamp defaults to the current time in seconds
BuildStatus(status) == [status |-> status, timestamp |-> now]

\* registry update refuses: the base is unknown and no package is supplied
unknown_package(base, package) == ~package /\ known[base] = <<>>

\* registry update: the entry of the base gets a new BuildStatus
service_update(base, status) == [known EXCEPT ![base] = <<BuildStatus(status)>>]

\* the write is remembered, also after the entry is removed
recorded(base, timestamp) == [written EXCEPT ![base] = <<timestamp>>]

\* registry remove: the entry of the base is dropped, if there is one
service_remove(base) == [known EXCEPT ![base] = <<>>]

\* the architectures of the repository
Architectures == {"x86_64", "aarch64"}

\* the runs which are inside the `with Lock(...)` block for the architecture
Holders(arch) ==
    {r \in Runs : architecture[r] = arch /\ hpc[r] \in {"run", "exit"}}

\* Lock.__enter__ refuses: the lock of the pair exists and force is not given
lock_refused(arch, forced) == lock_file[arch] /\ ~forced

\* Lock.__enter__ succeeds: the lock of the pair exists from now on
lock_created(arch) == [lock_file EXCEPT ![arch] = TRUE]

\* Lock.__exit__: the lock of the pair is removed, whoever created it
lock_removed(arch) == [lock_file EXCEPT ![arch] = FALSE]

Init ==
    /\ dependencies = [b \in Bases |-> {}]
    /\ provider = NoProvider
    /\ leaves = <<>>
    /\ tpc = "idle"
    /\ unprocessed = <<>>
    /\ unsorted = <<>>
    /\ current_num = 0
    /\ result = <<>>
    /\ previous = <<>>
    /\ upc = "idle"
    /\ tree_levels = <<>>
    /\ num = 0
    /\ pending = {}
    /\ built = EmptyResult
    /\ results = <<>>
    /\ log = <<>>
    /\ hpc = [r \in Runs |-> "idle"]
    /\ architecture = [r \in Runs |-> "x86_64"]
    /\ force = [r \in Runs |-> FALSE]
    /\ raised = [r \in Runs |-> "none"]
    /\ returned = [r \in Runs |-> "none"]
    /\ lock_file = [a \in Architectures |-> FALSE]
    /\ overridden = [a \in Architectures |-> FALSE]
    /\ entered = [r \in Runs |-> 0]
    /\ exited = [r \in Runs |-> 0]
    /\ body = [r \in Runs |-> 0]
    /\ epc = "idle"
    /\ requested = {}
    /\ args_force = FALSE
    /\ todo = {}
    /\ called = [a \in Architectures |-> 0]
    /\ collected = {}
    /\ exit_code = 0
    /\ known = [b \in KnownBases |-> <<>>]
    /\ now = 0
    /\ request = NoRequest
    /\ response = "none"
    /\ error = "none"
    /\ written = [b \in KnownBases |-> <<>>]
    /\ vpc = "idle"
    /\ self_version = NoVersion
    /\ remote_version = NoVersion
    /\ calculated = FALSE
    /\ outdated = FALSE
    /\ gpc = "idle"
    /\ no_aur = FALSE
    /\ no_manual = FALSE
    /\ local_version = [b \in CheckedBases |-> NoVersion]
    /\ remotes = [b \in CheckedBases |-> <<>>]
    /\ queue = {}
    /\ checked = 0
    /\ statuses = <<>>
    /\ aur_updates = <<>>
    /\ manual_updates = <<>>
    /\ updates = <<>>
    /\ first_run = <<>>
    /\ build_dates = {}
    /\ utcnow = 0
    /\ vcs_allowed_age = 0
    /\ calculate_version = FALSE
    /\ remote_is_vcs = FALSE
    /\ stored_version = NoVersion
    /\ refreshed = FALSE
    /\ apc = "idle"
    /\ args_now = FALSE
    /\ args_exit_code = FALSE
    /\ to_build = {}
    /\ add_result = [succeeded |-> {}, failed |-> {}]
    /\ add_raised = "none"
    /\ add_status = 0
    /\ mpc = "idle"
    /\ user_version = 0
    /\ applied = <<>>
    /\ expected_version = 0
    /\ next_index = 0
    /\ tx_applied = <<>>
    /\ migration_raised = FALSE
    /\ spc = "idle"
    /\ keywords = <<>>
    /\ term_index = 0
    /\ found = {}
    /\ search_result = {}
    /\ lpc = [l \in Loaders |-> "none"]
    /\ on_stop_requested = [l \in Loaders |-> FALSE]
    /\ started = [l \in Loaders |-> {}]
    /\ stopped = [l \in Loaders |-> {}]
    /\ stopped_at_exit = [l \in Loaders |-> {}]
    /\ fpc = "idle"
    /\ dep_entries = <<>>
    /\ dep_map = [n \in DepNames |-> {}]
    /\ self_depends = {}
    /\ fd_result = {}
    /\ current_depends = {}
    /\ passes = 0
    /\ full_depends_result = <<>>
    /\ content = [k \in ContextKeys |-> NoValue]
    /\ first_stored = [k \in ContextKeys |-> NoValue]
    /\ ctx_call = NoCall
    /\ ctx_raised = "none"
    /\ ctx_got = NoValue
    /\ wpc = "idle"
    /\ web_call = NoWebCall
    /\ web_exception = "none"
    /\ web_raised = FALSE
    /\ web_logged = FALSE
    /\ web_returned = NoReturn
    /\ wdpc = "idle"
    /\ process_dependencies = FALSE
    /\ known_packages = {}
    /\ aur_base = [n \in AurNames |-> n]
    /\ aur_depends = [n \in AurNames |-> {}]
    /\ own_depends = {}
    /\ with_dependencies = [b \in AurNames |-> NoPackage]
    /\ missing = <<>>
    /\ with_result = {}

\* Tree.resolve / Tree.__init__: leaves with their dependency sets, then levels()
Resolve ==
    /\ tpc = "idle"
    /\ \E edges \in EdgeSets, p \in {NoProvider} \cup Bases :
         /\ dependencies' = [b \in Bases |-> {e[2] : e \in {x \in edges : x[1] = b}}]
         /\ provider' = p
    /\ leaves' = [i \in Bases |-> i]
    /\ unprocessed' = leaves'
    /\ unsorted' = <<>>
    /\ tpc' = "peel"
    /\ UNCHANGED <<current_num, result, previous>>
    /\ UNCHANGED notTree

\* one iteration of `while unprocessed`
Peel ==
    /\ tpc = "peel"
    /\ unprocessed # <<>>
    /\ Len(unsorted) < MaxPeels
    /\ unsorted' = Append(unsorted, roots(unprocessed))
    /\ unprocessed' = rest(unprocessed)
    /\ UNCHANGED <<dependencies, provider, leaves, tpc, current_num, result, previous>>
    /\ UNCHANGED notTree

\* the while loop ends
PeelDone ==
    /\ tpc = "peel"
    /\ unprocessed = <<>>
    /\ tpc' = "defer"
    /\ current_num' = 0
    /\ UNCHANGED <<dependencies, provider, leaves, unprocessed, unsorted, result, previous>>
    /\ UNCHANGED notTree

\* one iteration of `for current_num, current_level in enumerate(unsorted[:-1])`
Defer ==
    /\ tpc = "defer"
    /\ current_num + 1 < Len(unsorted)
    /\ LET current_level == unsorted[current_num + 1]
           next_level == unsorted[current_num + 2]
       IN  unsorted' = [unsorted EXCEPT
                          ![current_num + 1] = partition_first(current_level, next_level),
                          ![current_num + 2] = extend(next_level, current_level)]
    /\ current_num' = current_num + 1
    /\ UNCHANGED <<dependencies, provider, leaves, tpc, unprocessed, result, previous>>
    /\ UNCHANGED notTree

\* the return statement
Finish ==
    /\ tpc = "defer"
    /\ current_num + 1 >= Len(unsorted)
    /\ result' = final(unsorted)
    /\ tpc' = "done"
    /\ UNCHANGED <<dependencies, provider, leaves, unprocessed, unsorted, current_num, previous>>
    /\ UNCHANGED notTree

\* the same packages with the same dependency data are resolved once more,
\* supplied in another order
ResolveAgain ==
    /\ tpc = "done"
    /\ previous = <<>>
    /\ previous' = <<result>>
    /\ \E order \in Orders : leaves' = order
    /\ unprocessed' = leaves'
    /\ unsorted' = <<>>
    /\ result' = <<>>
    /\ tpc' = "peel"
    /\ UNCHANGED <<dependencies, provider, current_num>>
    /\ UNCHANGED notTree

TreeNext == Resolve \/ Peel \/ PeelDone \/ Defer \/ Finish \/ ResolveAgain

SpecTree == Init /\ [][TreeNext]_vars

\* ------------------------------------------------------------------------
\* Application.update
\* ------------------------------------------------------------------------
\* update() is entered: packages_built() is read and the tree of the updates
\* is resolved
Update ==
    /\ upc = "idle"
    /\ \E levels \in LevelLists : tree_levels' = levels
    /\ num' = 0
    /\ upc' = "update"
    /\ UNCHANGED <<pending, built, results, log>>
    /\ UNCHANGED notUpd

\* process_update closure: self.repository.process_update(paths)
ProcessUpdate ==
    /\ upc = "update"
    /\ log' = Append(log, Entry("update", num, num, TRUE))
    /\ upc' = "report"
    /\ UNCHANGED <<tree_levels, num, pending, built, results>>
    /\ UNCHANGED notUpd

\* _finalize: self.report()
Report ==
    /\ upc = "report"
    /\ log' = Append(log, Entry("report", num, num, TRUE))
    /\ upc' = "sync"
    /\ UNCHANGED <<tree_levels, num, pending, built, results>>
    /\ UNCHANGED notUpd

\* _finalize: self.sync()
Sync ==
    /\ upc = "sync"
    /\ log' = Append(log, Entry("sync", num, num, TRUE))
    /\ upc' = "loop"
    /\ UNCHANGED <<tree_levels, num, pending, built, results>>
    /\ UNCHANGED notUpd

\* `for num, level in enumerate(tree.levels())`: the next level goes to
\* process_build
LevelBegin ==
    /\ upc = "loop"
    /\ num < Len(tree_levels)
    /\ num' = num + 1
    /\ pending' = Range(tree_levels[num + 1])
    /\ built' = EmptyResult
    /\ upc' = "build"
    /\ UNCHANGED <<tree_levels, results, log>>
    /\ UNCHANGED notUpd

\* the loop is exhausted, update() returns
UpdateDone ==
    /\ upc = "loop"
    /\ num >= Len(tree_levels)
    /\ upc' = "done"
    /\ UNCHANGED <<tree_levels, num, pending, built, results, log>>
    /\ UNCHANGED notUpd

\* process_build: one package of the level is built; the build yields its
\* archives or fails, a failure is recorded and the level goes on
Build ==
    /\ upc = "build"
    /\ \E base \in pending, ok \in BOOLEAN :
         /\ pending' = pending \ {base}
         /\ built' = IF ok THEN [built EXCEPT !.succeeded = Append(@, base)]
                     ELSE [built EXCEPT !.failed = Append(@, base)]
         /\ log' = Append(log, Entry("build", num, base, ok))
    /\ UNCHANGED <<upc, tree_levels, num, results>>
    /\ UNCHANGED notUpd

\* BuildEnd with the finalize step left for the end of the run
BuildEnd_no_finalize ==
    /\ upc = "build"
    /\ pending = {}
    /\ results' = Append(results, built)
    /\ upc' = "loop"
    /\ UNCHANGED <<tree_levels, num, pending, built, log>>
    /\ UNCHANGED notUpd

\* BuildEnd with a failed build ending the run
BuildEnd_failure_aborts ==
    /\ upc = "build"
    /\ pending = {}
    /\ results' = Append(results, built)
    /\ upc' = IF built.failed = <<>> THEN "update" ELSE "done"
    /\ UNCHANGED <<tree_levels, num, pending, built, log>>
    /\ UNCHANGED notUpd

\* process_build returns, its packages go to process_update
BuildEnd ==
    /\ upc = "build"
    /\ pending = {}
    /\ results' = Append(results, built)
    /\ upc' = "update"
    /\ UNCHANGED <<tree_levels, num, pending, built, log>>
    /\ UNCHANGED notUpd

UpdateNext == \/ Update \/ ProcessUpdate \/ Report \/ Sync \/ LevelBegin
              \/ UpdateDone \/ Build \/ BuildEnd

SpecUpdate == Init /\ [][UpdateNext]_vars

\* ------------------------------------------------------------------------
\* Handler.call
\* ------------------------------------------------------------------------
\* a run of the application calls Handler.call(args, architecture)
Call(r) ==
    /\ hpc[r] = "idle"
    /\ \E arch \in Architectures, forced \in BOOLEAN :
         /\ architecture' = [architecture EXCEPT ![r] = arch]
         /\ force' = [force EXCEPT ![r] = forced]
    /\ hpc' = [hpc EXCEPT ![r] = "configuration"]
    /\ raised' = [raised EXCEPT ![r] = "none"]
    /\ returned' = [returned EXCEPT ![r] = "none"]
    /\ entered' = [entered EXCEPT ![r] = 0]
    /\ exited' = [exited EXCEPT ![r] = 0]
    /\ body' = [body EXCEPT ![r] = 0]
    /\ UNCHANGED <<lock_file, overridden>>
    /\ UNCHANGED notCall

\* Configuration.from_path: the configuration is loaded, or the load raises
\* and the except clause returns False
Configure(r) ==
    /\ hpc[r] = "configuration"
    /\ \E loaded \in BOOLEAN :
         IF loaded
         THEN /\ hpc' = [hpc EXCEPT ![r] = "lock"]
              /\ UNCHANGED <<raised, returned>>
         ELSE /\ hpc' = [hpc EXCEPT ![r] = "returned"]
              /\ raised' = [raised EXCEPT ![r] = "Exception"]
              /\ returned' = [returned EXCEPT ![r] = FALSE]
    /\ UNCHANGED <<architecture, force, lock_file, overridden, entered, exited, body>>
    /\ UNCHANGED notCall

\* Enter with a lock which is created without looking for an existing one
Enter_no_check(r) ==
    /\ hpc[r] = "lock"
    /\ hpc' = [hpc EXCEPT ![r] = "run"]
    /\ lock_file' = lock_created(architecture[r])
    /\ overridden' = [overridden EXCEPT ![architecture[r]] =
                         @ \/ (force[r] /\ Holders(architecture[r]) # {})]
    /\ entered' = [entered EXCEPT ![r] = @ + 1]
    /\ UNCHANGED <<raised, returned, architecture, force, exited, body>>
    /\ UNCHANGED notCall

\* Enter with a refusal of the lock which does not keep the body from running
Enter_refusal_runs(r) ==
    /\ hpc[r] = "lock"
    /\ hpc' = [hpc EXCEPT ![r] = "run"]
    /\ IF lock_refused(architecture[r], force[r])
       THEN /\ raised' = [raised EXCEPT ![r] = "DuplicateRun"]
            /\ UNCHANGED <<lock_file, overridden, entered>>
       ELSE /\ lock_file' = lock_created(architecture[r])
            /\ overridden' = [overridden EXCEPT ![architecture[r]] =
                                 @ \/ (force[r] /\ Holders(architecture[r]) # {})]
            /\ entered' = [entered EXCEPT ![r] = @ + 1]
            /\ UNCHANGED raised
    /\ UNCHANGED <<returned, architecture, force, exited, body>>
    /\ UNCHANGED notCall

\* `with Lock(args, architecture, configuration)`: Lock.__enter__ creates the
\* lock or raises DuplicateRun, which the except clause turns into False
Enter(r) ==
    /\ hpc[r] = "lock"
    /\ IF lock_refused(architecture[r], force[r])
       THEN /\ hpc' = [hpc EXCEPT ![r] = "returned"]
            /\ raised' = [raised EXCEPT ![r] = "DuplicateRun"]
            /\ returned' = [returned EXCEPT ![r] = FALSE]
            /\ UNCHANGED <<lock_file, overridden, entered>>
       ELSE /\ hpc' = [hpc EXCEPT ![r] = "run"]
            /\ lock_file' = lock_created(architecture[r])
            /\ overridden' = [overridden EXCEPT ![architecture[r]] =
                                 @ \/ (force[r] /\ Holders(architecture[r]) # {})]
            /\ entered' = [entered EXCEPT ![r] = @ + 1]
            /\ UNCHANGED <<raised, returned>>
    /\ UNCHANGED <<architecture, force, exited, body>>
    /\ UNCHANGED notCall

\* cls.run(...): the command body ends, or raises
Run(r) ==
    /\ hpc[r] = "run"
    /\ \E failed \in BOOLEAN :
         raised' = [raised EXCEPT ![r] = IF failed THEN "Exception" ELSE "none"]
    /\ hpc' = [hpc EXCEPT ![r] = "exit"]
    /\ body' = [body EXCEPT ![r] = @ + 1]
    /\ UNCHANGED <<architecture, force, returned, lock_file, overridden, entered, exited>>
    /\ UNCHANGED notCall

\* Exit with Lock.__exit__ left out when the body has raised
Exit_skipped_on_error(r) ==
    /\ hpc[r] = "exit"
    /\ IF raised[r] = "none"
       THEN /\ lock_file' = lock_removed(architecture[r])
            /\ overridden' = [overridden EXCEPT ![architecture[r]] =
                                 @ /\ Holders(architecture[r]) # {r}]
            /\ exited' = [exited EXCEPT ![r] = @ + 1]
       ELSE UNCHANGED <<lock_file, overridden, exited>>
    /\ returned' = [returned EXCEPT ![r] = (raised[r] = "none")]
    /\ hpc' = [hpc EXCEPT ![r] = "returned"]
    /\ UNCHANGED <<architecture, force, raised, entered, body>>
    /\ UNCHANGED notCall

\* the with block is left: Lock.__exit__ removes the lock, then call returns
\* True, or False from the except clause
Exit(r) ==
    /\ hpc[r] = "exit"
    /\ lock_file' = lock_removed(architecture[r])
    /\ overridden' = [overridden EXCEPT ![architecture[r]] =
                         @ /\ Holders(architecture[r]) # {r}]
    /\ returned' = [returned EXCEPT ![r] = (raised[r] = "none")]
    /\ hpc' = [hpc EXCEPT ![r] = "returned"]
    /\ exited' = [exited EXCEPT ![r] = @ + 1]
    /\ UNCHANGED <<architecture, force, raised, entered, body>>
    /\ UNCHANGED notCall

\* the process of the run ends; the application may be started again
Terminate(r) ==
    /\ hpc[r] = "returned"
    /\ hpc' = [hpc EXCEPT ![r] = "idle"]
    /\ UNCHANGED <<architecture, force, raised, returned, lock_file, overridden,
                   entered, exited, body>>
    /\ UNCHANGED notCall

CallNext == \E r \in Runs : \/ Call(r) \/ Configure(r) \/ Enter(r)
                            \/ Run(r) \/ Exit(r) \/ Terminate(r)

SpecCall == Init /\ [][CallNext]_vars

\* ------------------------------------------------------------------------
\* Handler.execute
\* ------------------------------------------------------------------------
\* extract_architectures raises MissingArchitecture: no architecture is given
\* and either the command needs one or the repository root knows none
missing_architecture(given, known_architectures, allow_auto) ==
    given = {} /\ (~allow_auto \/ known_architectures = {})

\* extract_architectures: the architectures given on the command line, else
\* the ones known_architectures in the repository root
extract_architectures(given, known_architectures) == IF given # {} THEN given ELSE known_architectures

\* all(result) over the values the calls returned
all(values) == \A v \in values : v[2]

\* execute is entered: the architectures are extracted; more than one of them
\* raises MultipleArchitecture unless the command allows it
Execute ==
    /\ epc = "idle"
    /\ \E given \in SUBSET Architectures, known_architectures \in SUBSET Architectures,
          allow_auto \in BOOLEAN, allow_multi \in BOOLEAN, forced \in BOOLEAN :
         /\ args_force' = forced
         /\ IF missing_architecture(given, known_architectures, allow_auto)
            THEN /\ epc' = "raised"
                 /\ UNCHANGED <<requested, todo>>
            ELSE /\ requested' = extract_architectures(given, known_architectures)
                 /\ IF Cardinality(requested') > 1 /\ ~allow_multi
                    THEN /\ epc' = "raised"
                         /\ UNCHANGED todo
                    ELSE /\ epc' = "calls"
                         /\ todo' = requested'
    /\ UNCHANGED <<called, collected, exit_code>>
    /\ UNCHANGED callVars
    /\ UNCHANGED notExec

\* a worker of the pool (or execute itself, for one architecture) starts
\* cls.call(args, architecture) for a task not started yet
PoolCall(r) ==
    /\ epc = "calls"
    /\ hpc[r] = "idle"
    /\ \E arch \in todo :
         /\ architecture' = [architecture EXCEPT ![r] = arch]
         /\ todo' = todo \ {arch}
         /\ called' = [called EXCEPT ![arch] = @ + 1]
    /\ force' = [force EXCEPT ![r] = args_force]
    /\ hpc' = [hpc EXCEPT ![r] = "configuration"]
    /\ raised' = [raised EXCEPT ![r] = "none"]
    /\ returned' = [returned EXCEPT ![r] = "none"]
    /\ entered' = [entered EXCEPT ![r] = 0]
    /\ exited' = [exited EXCEPT ![r] = 0]
    /\ body' = [body EXCEPT ![r] = 0]
    /\ UNCHANGED <<lock_file, overridden, epc, requested, args_force, collected, exit_code>>
    /\ UNCHANGED notExec

\* Collect with a failed call cancelling the tasks which were not started
Collect_failure_cancels(r) ==
    /\ epc = "calls"
    /\ hpc[r] = "returned"
    /\ collected' = collected \cup {<<architecture[r], returned[r]>>}
    /\ todo' = IF returned[r] THEN todo ELSE {}
    /\ hpc' = [hpc EXCEPT ![r] = "idle"]
    /\ UNCHANGED <<architecture, force, raised, returned, lock_file, overridden,
                   entered, exited, body>>
    /\ UNCHANGED <<epc, requested, args_force, called, exit_code>>
    /\ UNCHANGED notExec

\* the value returned by a call becomes an element of result
Collect(r) ==
    /\ epc = "calls"
    /\ hpc[r] = "returned"
    /\ collected' = collected \cup {<<architecture[r], returned[r]>>}
    /\ hpc' = [hpc EXCEPT ![r] = "idle"]
    /\ UNCHANGED <<architecture, force, raised, returned, lock_file, overridden,
                   entered, exited, body>>
    /\ UNCHANGED <<epc, requested, args_force, todo, called, exit_code>>
    /\ UNCHANGED notExec

\* every task has returned: `return 0 if all(result) else 1`
ExecuteReturn ==
    /\ epc = "calls"
    /\ todo = {}
    /\ \A r \in Runs : hpc[r] = "idle"
    /\ exit_code' = IF all(collected) THEN 0 ELSE 1
    /\ epc' = "done"
    /\ UNCHANGED <<requested, args_force, todo, called, collected>>
    /\ UNCHANGED callVars
    /\ UNCHANGED notExec

\* the process ends; the command line may be invoked again
ExecuteEnd ==
    /\ epc \in {"done", "raised"}
    /\ epc' = "idle"
    /\ requested' = {}
    /\ todo' = {}
    /\ called' = [a \in Architectures |-> 0]
    /\ collected' = {}
    /\ exit_code' = 0
    /\ UNCHANGED args_force
    /\ UNCHANGED callVars
    /\ UNCHANGED notExec

ExecuteNext == \/ Execute \/ ExecuteReturn \/ ExecuteEnd
               \/ \E r \in Runs : \/ PoolCall(r) \/ Configure(r) \/ Enter(r)
                                    \/ Run(r) \/ Exit(r) \/ Collect(r)

SpecExecute == Init /\ [][ExecuteNext]_vars

\* ------------------------------------------------------------------------
\* Status registry behind PackageView
\* ------------------------------------------------------------------------
\* time passes
Tick ==
    /\ now < MaxClock
    /\ now' = now + 1
    /\ UNCHANGED <<known, request, response, error, written>>
    /\ UNCHANGED notReg

\* Post with the unknown-package error of the registry swallowed
Post_unknown_accepted(base) ==
    /\ \E valid \in BOOLEAN :
         IF ~valid
         THEN /\ request' = [op |-> "post", base |-> base, package |-> FALSE,
                             valid |-> FALSE]
              /\ response' = "HTTPBadRequest"
              /\ error' = "Exception"
              /\ UNCHANGED <<known, written>>
         ELSE \E status \in BuildStatusEnum, package \in BOOLEAN :
              /\ request' = [op |-> "post", base |-> base, package |-> package,
                             valid |-> TRUE]
              /\ IF unknown_package(base, package)
                 THEN /\ response' = "HTTPNoContent"
                      /\ error' = "none"
                      /\ UNCHANGED <<known, written>>
                 ELSE /\ known' = service_update(base, status)
                      /\ written' = recorded(base, known'[base][1].timestamp)
                      /\ response' = "HTTPNoContent"
                      /\ error' = "none"
    /\ UNCHANGED now
    /\ UNCHANGED notReg

\* PackageView.post: the body is parsed, the registry is updated; bad data and
\* an unknown base without package body end in HTTPBadRequest
Post(base) ==
    /\ \E valid \in BOOLEAN :
         IF ~valid
         THEN /\ request' = [op |-> "post", base |-> base, package |-> FALSE,
                             valid |-> FALSE]
              /\ response' = "HTTPBadRequest"
              /\ error' = "Exception"
              /\ UNCHANGED <<known, written>>
         ELSE \E status \in BuildStatusEnum, package \in BOOLEAN :
              /\ request' = [op |-> "post", base |-> base, package |-> package,
                             valid |-> TRUE]
              /\ IF unknown_package(base, package)
                 THEN /\ response' = "HTTPBadRequest"
                      /\ error' = "UnknownPackage"
                      /\ UNCHANGED <<known, written>>
                 ELSE /\ known' = service_update(base, status)
                      /\ written' = recorded(base, known'[base][1].timestamp)
                      /\ response' = "HTTPNoContent"
                      /\ error' = "none"
    /\ UNCHANGED now
    /\ UNCHANGED notReg

\* PackageView.delete: the base is removed from the registry
Delete(base) ==
    /\ request' = [op |-> "delete", base |-> base, package |-> FALSE, valid |-> TRUE]
    /\ known' = service_remove(base)
    /\ response' = "HTTPNoContent"
    /\ error' = "none"
    /\ UNCHANGED <<now, written>>
    /\ UNCHANGED notReg

RegistryNext == Tick \/ \E base \in KnownBases : Post(base) \/ Delete(base)

SpecRegistry == Init /\ [][RegistryNext]_vars

\* ------------------------------------------------------------------------
\* Package.is_outdated
\* ------------------------------------------------------------------------
\* local.is_outdated(remote, paths, ...): the version to compare to is the
\* actual version of the remote package unless the calculation is switched off
\* or the local package was built within the allowed age
IsOutdated ==
    /\ vpc = "idle"
    /\ \E local \in Versions, version \in Versions,
          source \in {<<FALSE, <<>>>>} \cup {<<TRUE, <<>>>>}
                     \cup {<<TRUE, <<v>>>> : v \in Versions},
          calculate \in BOOLEAN, newer \in BOOLEAN :
         /\ self_version' = local
         /\ calculated' = (calculate /\ ~newer)
         /\ remote_version' = IF calculated'
                               THEN actual_version(version, source[1], source[2])
                               ELSE version
         /\ outdated' = is_outdated(local, remote_version')
    /\ vpc' = "compared"
    /\ UNCHANGED notVer

\* the caller has the answer; the next comparison starts afresh
IsOutdatedDone ==
    /\ vpc = "compared"
    /\ vpc' = "idle"
    /\ self_version' = NoVersion
    /\ remote_version' = NoVersion
    /\ calculated' = FALSE
    /\ outdated' = FALSE
    /\ UNCHANGED notVer

VersionNext == IsOutdated \/ IsOutdatedDone

SpecVersion == Init /\ [][VersionNext]_vars

\* ------------------------------------------------------------------------
\* Change detection: Application.get_updates, updates_aur, updates_manual
\* ------------------------------------------------------------------------
\* get_updates is entered for a repository, its remotes and its manual queue
GetUpdates ==
    /\ gpc = "idle"
    /\ \E locals \in [CheckedBases -> CheckedVersions],
          lookups \in [CheckedBases -> Lookups],
          queued \in SUBSET CheckedBases,
          aur_off \in BOOLEAN, manual_off \in BOOLEAN :
         /\ local_version' = locals
         /\ remotes' = lookups
         /\ queue' = queued
         /\ no_aur' = aur_off
         /\ no_manual' = manual_off
    /\ gpc' = "aur"
    /\ UNCHANGED <<checked, statuses, aur_updates, manual_updates, updates, first_run>>
    /\ UNCHANGED notDet

\* CheckAur with a failed lookup ending the lane
CheckAur_failure_stops ==
    /\ gpc = "aur"
    /\ ~no_aur
    /\ checked < NumChecked
    /\ LET base == checked + 1
       IN  IF remotes[base] = <<>>
           THEN /\ statuses' = Append(statuses, <<base, "failed">>)
                /\ checked' = NumChecked
                /\ UNCHANGED aur_updates
           ELSE /\ checked' = checked + 1
                /\ IF is_outdated(local_version[base], remotes[base][1])
                   THEN /\ statuses' = Append(statuses, <<base, "pending">>)
                        /\ aur_updates' = Append(aur_updates, base)
                   ELSE /\ statuses' = Append(statuses, <<base, "success">>)
                        /\ UNCHANGED aur_updates
    /\ UNCHANGED <<gpc, no_aur, no_manual, local_version, remotes, queue,
                   manual_updates, updates, first_run>>
    /\ UNCHANGED notDet

\* updates_aur, one package of the repository: the remote is looked up and
\* compared; the outcome is written as failed, pending or success, and an
\* outdated package joins the result
CheckAur ==
    /\ gpc = "aur"
    /\ ~no_aur
    /\ checked < NumChecked
    /\ LET base == checked + 1
       IN  IF remotes[base] = <<>>
           THEN /\ statuses' = Append(statuses, <<base, "failed">>)
                /\ UNCHANGED aur_updates
           ELSE IF is_outdated(local_version[base], remotes[base][1])
           THEN /\ statuses' = Append(statuses, <<base, "pending">>)
                /\ aur_updates' = Append(aur_updates, base)
           ELSE /\ statuses' = Append(statuses, <<base, "success">>)
                /\ UNCHANGED aur_updates
    /\ checked' = checked + 1
    /\ UNCHANGED <<gpc, no_aur, no_manual, local_version, remotes, queue,
                   manual_updates, updates, first_run>>
    /\ UNCHANGED notDet

\* updates_aur returns, or `if not no_aur` skips it
AurDone ==
    /\ gpc = "aur"
    /\ no_aur \/ checked = NumChecked
    /\ gpc' = "manual"
    /\ UNCHANGED <<no_aur, no_manual, local_version, remotes, queue, checked,
                   statuses, aur_updates, manual_updates, updates, first_run>>
    /\ UNCHANGED notDet

\* the status writes of updates_manual for the queued bases from this one on
RECURSIVE pending_from(_)

pending_from(base) ==
    IF base > NumChecked THEN <<>>
    ELSE IF base \in queue THEN <<<<base, "pending">>>> \o pending_from(base + 1)
    ELSE pending_from(base + 1)

\* UpdatesManual with the queue left as it was
UpdatesManual_keeps_queue ==
    /\ gpc = "manual"
    /\ IF no_manual
       THEN UNCHANGED <<queue, statuses, manual_updates>>
       ELSE /\ manual_updates' = ascending(queue)
            /\ statuses' = statuses \o pending_from(1)
            /\ UNCHANGED queue
    /\ gpc' = "return"
    /\ UNCHANGED <<no_aur, no_manual, local_version, remotes, checked,
                   aur_updates, updates, first_run>>
    /\ UNCHANGED notDet

\* updates_manual: every queued package is written as pending and returned,
\* then the queue is cleared; `if not no_manual` may skip it
UpdatesManual ==
    /\ gpc = "manual"
    /\ IF no_manual
       THEN UNCHANGED <<queue, statuses, manual_updates>>
       ELSE /\ manual_updates' = ascending(queue)
            /\ statuses' = statuses \o pending_from(1)
            /\ queue' = {}
    /\ gpc' = "return"
    /\ UNCHANGED <<no_aur, no_manual, local_version, remotes, checked,
                   aur_updates, updates, first_run>>
    /\ UNCHANGED notDet

\* get_updates returns the list both lanes have extended
GetUpdatesReturn ==
    /\ gpc = "return"
    /\ updates' = aur_updates \o manual_updates
    /\ gpc' = "done"
    /\ UNCHANGED <<no_aur, no_manual, local_version, remotes, queue, checked,
                   statuses, aur_updates, manual_updates, first_run>>
    /\ UNCHANGED notDet

\* get_updates is called once more with the same arguments; nothing but the
\* first run has touched the repository, the remotes or the queue
GetUpdatesAgain ==
    /\ gpc = "done"
    /\ first_run = <<>>
    /\ first_run' = <<[updates |-> updates, aur_updates |-> aur_updates,
                   manual_updates |-> manual_updates]>>
    /\ checked' = 0
    /\ statuses' = <<>>
    /\ aur_updates' = <<>>
    /\ manual_updates' = <<>>
    /\ updates' = <<>>
    /\ gpc' = "aur"
    /\ UNCHANGED <<no_aur, no_manual, local_version, remotes, queue>>
    /\ UNCHANGED notDet

DetectNext == \/ GetUpdates \/ CheckAur \/ AurDone \/ UpdatesManual
              \/ GetUpdatesReturn \/ GetUpdatesAgain

SpecDetect == Init /\ [][DetectNext]_vars

\* ------------------------------------------------------------------------
\* Package.is_outdated and the freshness window
\* ------------------------------------------------------------------------
\* local.is_outdated(remote, paths, vcs_allowed_age=..., calculate_version=...)
\* for a local package with build dates: the actual version of the remote is
\* calculated (for a VCS package: from freshly loaded sources) unless the
\* calculation is off or an archive was built after utcnow - vcs_allowed_age
IsOutdatedAt ==
    /\ vpc = "idle"
    /\ \E local \in CheckedVersions, version \in CheckedVersions,
          source \in {<<FALSE, <<>>>>} \cup {<<TRUE, <<>>>>}
                     \cup {<<TRUE, <<v>>>> : v \in CheckedVersions},
          dates \in SUBSET Times, time \in Times, age \in Times,
          calculate \in BOOLEAN :
         /\ self_version' = local
         /\ stored_version' = version
         /\ remote_is_vcs' = source[1]
         /\ build_dates' = dates
         /\ utcnow' = time
         /\ vcs_allowed_age' = age
         /\ calculate_version' = calculate
         /\ calculated' = (calculate
                             /\ ~is_newer_than(dates, min_vcs_build_date(time, age)))
         /\ refreshed' = (calculated' /\ source[1])
         /\ remote_version' = IF calculated'
                               THEN actual_version(version, source[1], source[2])
                               ELSE version
         /\ outdated' = is_outdated(local, remote_version')
    /\ vpc' = "compared"
    /\ UNCHANGED notFresh

\* the caller has the answer; the next comparison starts afresh
IsOutdatedAtDone ==
    /\ vpc = "compared"
    /\ vpc' = "idle"
    /\ self_version' = NoVersion
    /\ remote_version' = NoVersion
    /\ calculated' = FALSE
    /\ outdated' = FALSE
    /\ build_dates' = {}
    /\ utcnow' = 0
    /\ vcs_allowed_age' = 0
    /\ calculate_version' = FALSE
    /\ remote_is_vcs' = FALSE
    /\ stored_version' = NoVersion
    /\ refreshed' = FALSE
    /\ UNCHANGED notFresh

FreshNext == IsOutdatedAt \/ IsOutdatedAtDone

SpecFresh == Init /\ [][FreshNext]_vars

\* ------------------------------------------------------------------------
\* Add.run: add packages, build them at once when asked to, and exit
\* ------------------------------------------------------------------------
\* Result.is_empty: no package was built
is_empty(res) == res.succeeded = {}

\* check_if_empty raising whenever the predicate holds
check_if_empty_ignores_flag(enabled, predicate) == predicate

\* Handler.check_if_empty: whether ExitCode is raised
check_if_empty(enabled, predicate) == enabled /\ predicate

\* Add.run up to the update: the packages are added; without args.now that is
\* all, otherwise the packages to build are collected. Any of the calls may
\* raise
AddRun ==
    /\ apc = "idle"
    /\ \E build_now \in BOOLEAN, flag \in BOOLEAN, fails \in BOOLEAN,
          bases \in SUBSET Bases :
         /\ args_now' = build_now
         /\ args_exit_code' = flag
         /\ add_raised' = IF fails THEN "Exception" ELSE "none"
         /\ to_build' = IF build_now /\ ~fails THEN bases ELSE {}
         /\ apc' = IF build_now /\ ~fails THEN "updating" ELSE "returned"
    /\ UNCHANGED <<add_result, add_status>>
    /\ UNCHANGED notAdd

\* result = application.update(packages, ...): every package handed over
\* either succeeds or fails
AddUpdate ==
    /\ apc = "updating"
    /\ \E ok \in SUBSET to_build :
         add_result' = [succeeded |-> ok, failed |-> to_build \ ok]
    /\ apc' = "updated"
    /\ UNCHANGED <<args_now, args_exit_code, to_build, add_raised, add_status>>
    /\ UNCHANGED notAdd

\* Add.check_if_empty(args.exit_code, result.is_empty)
AddCheck ==
    /\ apc = "updated"
    /\ add_raised' = IF check_if_empty(args_exit_code, is_empty(add_result))
                     THEN "ExitCode" ELSE "none"
    /\ apc' = "returned"
    /\ UNCHANGED <<args_now, args_exit_code, to_build, add_result, add_status>>
    /\ UNCHANGED notAdd

\* Handler.call returns False when run raised, and Handler.execute returns
\* 0 if all(result) else 1
AddExit ==
    /\ apc = "returned"
    /\ add_status' = IF add_raised = "none" THEN 0 ELSE 1
    /\ apc' = "exited"
    /\ UNCHANGED <<args_now, args_exit_code, to_build, add_result, add_raised>>
    /\ UNCHANGED notAdd

\* the next invocation of the command
AddAgain ==
    /\ apc = "exited"
    /\ apc' = "idle"
    /\ args_now' = FALSE
    /\ args_exit_code' = FALSE
    /\ to_build' = {}
    /\ add_result' = [succeeded |-> {}, failed |-> {}]
    /\ add_raised' = "none"
    /\ add_status' = 0
    /\ UNCHANGED notAdd

AddNext == AddRun \/ AddUpdate \/ AddCheck \/ AddExit \/ AddAgain

SpecAdd == Init /\ [][AddNext]_vars

\* ------------------------------------------------------------------------
\* Migrations.run: bring the database schema to the version of the program
\* ------------------------------------------------------------------------
\* MigrationResult.validate: the database is newer than the program
migration_invalid(old_version, new_version) ==
    old_version < 0 \/ old_version > new_version

\* MigrationResult.is_outdated: there are migrations to apply
migration_is_outdated(old_version, new_version) == new_version > old_version

\* the migrations are applied again from the first one
migrations_from_start(count, current_version) == 0

\* migrations[current_version:]: index of the first migration to apply (the
\* list is built by enumerate(sorted(modules)): migration i is at position i)
migrations_from(count, current_version) ==
    IF current_version < count THEN current_version ELSE count

\* run up to "begin exclusive": the versions are read and compared
MigrationsRun ==
    /\ mpc = "idle"
    /\ \E count \in 0..MaxMigrations :
         /\ expected_version' = count
         /\ IF migration_invalid(user_version, count)
            THEN /\ migration_raised' = TRUE
                 /\ mpc' = "returned"
                 /\ next_index' = next_index
            ELSE IF ~migration_is_outdated(user_version, count)
            THEN /\ migration_raised' = FALSE
                 /\ mpc' = "returned"
                 /\ next_index' = next_index
            ELSE /\ migration_raised' = FALSE
                 /\ mpc' = "applying"
                 /\ next_index' = migrations_from(count, user_version)
    /\ tx_applied' = <<>>
    /\ UNCHANGED <<user_version, applied>>
    /\ UNCHANGED notMig

\* the except branch with the steps applied so far kept in the database
Rollback_keeps_steps ==
    /\ migration_raised' = TRUE
    /\ applied' = applied \o tx_applied
    /\ tx_applied' = <<>>
    /\ mpc' = "returned"
    /\ UNCHANGED <<user_version, expected_version, next_index>>
    /\ UNCHANGED notMig

\* except Exception: rollback, and the exception is raised again
Rollback ==
    /\ migration_raised' = TRUE
    /\ tx_applied' = <<>>
    /\ mpc' = "returned"
    /\ UNCHANGED <<user_version, applied, expected_version, next_index>>
    /\ UNCHANGED notMig

\* one pass of the loop: the statements of the next migration are executed,
\* or one of them fails
ApplyMigration ==
    /\ mpc = "applying"
    /\ next_index < expected_version
    /\ \/ /\ tx_applied' = Append(tx_applied, next_index)
          /\ next_index' = next_index + 1
          /\ UNCHANGED <<mpc, user_version, applied, expected_version,
                         migration_raised>>
          /\ UNCHANGED notMig
       \/ Rollback

\* after the loop: migrate_data, pragma user_version = expected_version and
\* commit, or a failure of the first two
CommitMigrations ==
    /\ mpc = "applying"
    /\ next_index >= expected_version
    /\ \/ /\ applied' = applied \o tx_applied
          /\ user_version' = expected_version
          /\ tx_applied' = <<>>
          /\ mpc' = "returned"
          /\ UNCHANGED <<expected_version, next_index, migration_raised>>
          /\ UNCHANGED notMig
       \/ Rollback

\* the run is over; the next one may be of another version of the program
MigrationsDone ==
    /\ mpc = "returned"
    /\ mpc' = "idle"
    /\ migration_raised' = FALSE
    /\ next_index' = 0
    /\ expected_version' = 0
    /\ UNCHANGED <<user_version, applied, tx_applied>>
    /\ UNCHANGED notMig

MigrationsNext ==
    MigrationsRun \/ ApplyMigration \/ CommitMigrations \/ MigrationsDone

SpecMigrations == Init /\ [][MigrationsNext]_vars

\* ------------------------------------------------------------------------
\* Remote.multisearch: search term by term and keep what matches every term
\* ------------------------------------------------------------------------
\* names of the packages of the remote
FoundNames == 1..NumFound

\* a search term, by what the search depends on: whether it has at least
\* three characters, and the names instance.search(term) returns for it
Terms == [long : BOOLEAN, matches : SUBSET FoundNames]

\* the arguments of multisearch
KeywordLists == UNION {[1..n -> Terms] : n \in 0..MaxTerms}

\* the dictionary after one more term: the packages of the portion which
\* are in the dictionary already, or all of them when the dictionary is empty
narrow(dictionary, portion) ==
    {name \in portion : name \in dictionary \/ dictionary = {}}

\* multisearch(*keywords): the dictionary starts empty
Multisearch ==
    /\ spc = "idle"
    /\ \E words \in KeywordLists : keywords' = words
    /\ term_index' = 0
    /\ found' = {}
    /\ spc' = "searching"
    /\ UNCHANGED search_result
    /\ UNCHANGED notSearch

\* one term of the loop over filter(len(word) >= 3, keywords); a short term
\* is passed over
SearchTerm ==
    /\ spc = "searching"
    /\ term_index < Len(keywords)
    /\ term_index' = term_index + 1
    /\ found' = IF keywords[term_index'].long
                THEN narrow(found, keywords[term_index'].matches)
                ELSE found
    /\ UNCHANGED <<spc, keywords, search_result>>
    /\ UNCHANGED notSearch

\* return list(packages.values())
MultisearchReturn ==
    /\ spc = "searching"
    /\ term_index = Len(keywords)
    /\ search_result' = found
    /\ spc' = "returned"
    /\ UNCHANGED <<keywords, term_index, found>>
    /\ UNCHANGED notSearch

\* the next search
MultisearchAgain ==
    /\ spc = "returned"
    /\ spc' = "idle"
    /\ keywords' = <<>>
    /\ term_index' = 0
    /\ found' = {}
    /\ search_result' = {}
    /\ UNCHANGED notSearch

SearchNext == Multisearch \/ SearchTerm \/ MultisearchReturn \/ MultisearchAgain

SpecSearch == Init /\ [][SearchNext]_vars

\* ------------------------------------------------------------------------
\* TriggerLoader: triggers are started on demand and stopped at the teardown
\* ------------------------------------------------------------------------
\* TriggerLoader(architecture, configuration)
TriggerLoaderNew(l) ==
    /\ lpc[l] = "none"
    /\ lpc' = [lpc EXCEPT ![l] = "created"]
    /\ UNCHANGED <<on_stop_requested, started, stopped, stopped_at_exit>>
    /\ UNCHANGED notLoader

\* on_start which does not ask for on_stop
TriggerOnStart_no_request(l) ==
    /\ lpc[l] = "created"
    /\ started' = [started EXCEPT ![l] = Triggers]
    /\ UNCHANGED <<lpc, on_stop_requested, stopped, stopped_at_exit>>
    /\ UNCHANGED notLoader

\* trigger_loader.on_start(): on_stop is requested and on_start of every
\* trigger is called
TriggerOnStart(l) ==
    /\ lpc[l] = "created"
    /\ on_stop_requested' = [on_stop_requested EXCEPT ![l] = TRUE]
    /\ started' = [started EXCEPT ![l] = Triggers]
    /\ UNCHANGED <<lpc, stopped, stopped_at_exit>>
    /\ UNCHANGED notLoader

\* trigger_loader.on_stop() called directly: on_stop of every trigger
TriggerOnStop(l) ==
    /\ lpc[l] = "created"
    /\ stopped[l] = {}
    /\ stopped' = [stopped EXCEPT ![l] = Triggers]
    /\ UNCHANGED <<lpc, on_stop_requested, started, stopped_at_exit>>
    /\ UNCHANGED notLoader

\* del trigger_loader: on_stop is called if it has been requested
TriggerLoaderDel(l) ==
    /\ lpc[l] = "created"
    /\ lpc' = [lpc EXCEPT ![l] = "deleted"]
    /\ stopped_at_exit' = [stopped_at_exit EXCEPT
                             ![l] = IF on_stop_requested[l] THEN Triggers ELSE {}]
    /\ stopped' = [stopped EXCEPT
                     ![l] = IF on_stop_requested[l] THEN Triggers ELSE @]
    /\ UNCHANGED <<on_stop_requested, started>>
    /\ UNCHANGED notLoader

\* the object is gone; another loader takes its place
TriggerLoaderGone(l) ==
    /\ lpc[l] = "deleted"
    /\ lpc' = [lpc EXCEPT ![l] = "none"]
    /\ on_stop_requested' = [on_stop_requested EXCEPT ![l] = FALSE]
    /\ started' = [started EXCEPT ![l] = {}]
    /\ stopped' = [stopped EXCEPT ![l] = {}]
    /\ stopped_at_exit' = [stopped_at_exit EXCEPT ![l] = {}]
    /\ UNCHANGED notLoader

LoaderNext ==
    \E l \in Loaders : \/ TriggerLoaderNew(l) \/ TriggerOnStart(l)
                       \/ TriggerOnStop(l) \/ TriggerLoaderDel(l)
                       \/ TriggerLoaderGone(l)

SpecLoader == Init /\ [][LoaderNext]_vars

\* ------------------------------------------------------------------------
\* Package.full_depends: the dependencies with the transitive ones
\* ------------------------------------------------------------------------
\* full_depends(pacman, packages) up to the loop: the map is loaded from the
\* repository package, then from the package of the sync database
FullDepends ==
    /\ fpc = "idle"
    /\ \E repo \in DepPackages, sync \in DepPackages, own \in SUBSET DepNames :
         /\ dep_entries' = <<repo, sync>>
         /\ dep_map' = dependency_map(<<repo, sync>>)
         /\ self_depends' = own
         /\ fd_result' = own
    /\ current_depends' = {}
    /\ passes' = 0
    /\ fpc' = "loop"
    /\ UNCHANGED full_depends_result
    /\ UNCHANGED notDepends

\* a pass which adds nothing: only the direct dependencies are returned
FullDependsPass_direct_only ==
    /\ fpc = "loop"
    /\ fd_result # current_depends
    /\ fd_result' = fd_result
    /\ current_depends' = fd_result
    /\ passes' = passes + 1
    /\ UNCHANGED <<fpc, dep_entries, dep_map, self_depends, full_depends_result>>
    /\ UNCHANGED notDepends

\* one pass of while result != current_depends
FullDependsPass ==
    /\ fpc = "loop"
    /\ fd_result # current_depends
    /\ current_depends' = fd_result
    /\ fd_result' = fd_result \cup UNION {dep_map[n] : n \in fd_result}
    /\ passes' = passes + 1
    /\ UNCHANGED <<fpc, dep_entries, dep_map, self_depends, full_depends_result>>
    /\ UNCHANGED notDepends

\* return sorted(result)
FullDependsReturn ==
    /\ fpc = "loop"
    /\ fd_result = current_depends
    /\ full_depends_result' = ascending(fd_result)
    /\ fpc' = "returned"
    /\ UNCHANGED <<dep_entries, dep_map, self_depends, fd_result,
                   current_depends, passes>>
    /\ UNCHANGED notDepends

\* the next call
FullDependsAgain ==
    /\ fpc = "returned"
    /\ fpc' = "idle"
    /\ dep_entries' = <<>>
    /\ dep_map' = [n \in DepNames |-> {}]
    /\ self_depends' = {}
    /\ fd_result' = {}
    /\ current_depends' = {}
    /\ passes' = 0
    /\ full_depends_result' = <<>>
    /\ UNCHANGED notDepends

DependsNext ==
    FullDepends \/ FullDependsPass \/ FullDependsReturn \/ FullDependsAgain

SpecDepends == Init /\ [][DependsNext]_vars

\* ------------------------------------------------------------------------
\* _Context: the global context
\* ------------------------------------------------------------------------
\* set which stores the value whenever it did not raise
ContextSet_overwrites ==
    \E call \in ContextCalls :
        /\ call.op = "set"
        /\ ctx_call' = call
        /\ LET has_key == content[call.key] # NoValue
           IN  IF call.strict /\ has_key
               THEN ctx_raised' = "KeyError" /\ UNCHANGED <<content, first_stored>>
               ELSE IF ~isinstance(call.value, call.return_type)
               THEN ctx_raised' = "ValueError" /\ UNCHANGED <<content, first_stored>>
               ELSE /\ ctx_raised' = "none"
                    /\ content' = [content EXCEPT ![call.key] = call.value]
                    /\ first_stored' = IF has_key THEN first_stored
                                       ELSE [first_stored EXCEPT ![call.key] = call.value]
        /\ UNCHANGED ctx_got
        /\ UNCHANGED notCtx

\* ctx.set(key, value, strict)
ContextSet ==
    \E call \in ContextCalls :
        /\ call.op = "set"
        /\ ctx_call' = call
        /\ LET has_key == content[call.key] # NoValue
           IN  IF call.strict /\ has_key
               THEN ctx_raised' = "KeyError" /\ UNCHANGED <<content, first_stored>>
               ELSE IF ~isinstance(call.value, call.return_type)
               THEN ctx_raised' = "ValueError" /\ UNCHANGED <<content, first_stored>>
               ELSE /\ ctx_raised' = "none"
                    /\ content' = IF has_key THEN content
                                  ELSE [content EXCEPT ![call.key] = call.value]
                    /\ first_stored' = IF has_key THEN first_stored
                                       ELSE [first_stored EXCEPT ![call.key] = call.value]
        /\ UNCHANGED ctx_got
        /\ UNCHANGED notCtx

\* ctx.get(key); the value argument of the call is not used
ContextGet ==
    \E call \in ContextCalls :
        /\ call.op = "get"
        /\ call.strict = FALSE
        /\ call.value = [type |-> call.return_type, value |-> "value"]
        /\ ctx_call' = call
        /\ IF content[call.key] = NoValue
           THEN ctx_raised' = "KeyError" /\ ctx_got' = NoValue
           ELSE IF ~isinstance(content[call.key], call.return_type)
           THEN ctx_raised' = "ValueError" /\ ctx_got' = NoValue
           ELSE ctx_raised' = "none" /\ ctx_got' = content[call.key]
        /\ UNCHANGED <<content, first_stored>>
        /\ UNCHANGED notCtx

ContextNext == ContextSet \/ ContextGet

SpecContext == Init /\ [][ContextNext]_vars

\* ------------------------------------------------------------------------
\* WebClient: every request runs inside __get_session
\* ------------------------------------------------------------------------
\* a method is called: with self.__get_session() as session
WebCall ==
    /\ wpc = "idle"
    /\ \E call \in WebCalls :
         /\ call.failure \in {"json", "content"} =>
               call.method \in {"get", "get_internal"}
         /\ call.method \notin {"get", "get_internal"} =>
               call.packages = {} /\ call.status = "unknown"
         /\ web_call' = call
    /\ wpc' = "request"
    /\ UNCHANGED <<web_exception, web_raised, web_logged, web_returned>>
    /\ UNCHANGED notWeb

\* the body of the with statement: the request, raise_for_status and, for
\* get and get_internal, the conversion of the answer, which is returned
WebRequest ==
    /\ wpc = "request"
    /\ IF web_call.failure # "none"
       THEN /\ web_exception' = exception_class(web_call.failure)
            /\ wpc' = "except"
            /\ UNCHANGED web_returned
       ELSE /\ web_exception' = "none"
            /\ IF web_call.method = "get"
               THEN /\ web_returned' = ReturnList(ascending(web_call.packages))
                    /\ wpc' = "returned"
               ELSE IF web_call.method = "get_internal"
               THEN /\ web_returned' = ReturnStatus(web_call.status)
                    /\ wpc' = "returned"
               ELSE /\ wpc' = "after"
                    /\ UNCHANGED web_returned
    /\ UNCHANGED <<web_call, web_raised, web_logged>>
    /\ UNCHANGED notWeb

\* the exception reaches __get_session: it is handled (and logged unless
\* suppress_errors) or leaves the method
WebExcept ==
    /\ wpc = "except"
    /\ IF handled(web_exception)
       THEN /\ web_logged' = ~web_call.suppress_errors
            /\ wpc' = "after"
            /\ UNCHANGED web_raised
       ELSE /\ web_raised' = TRUE
            /\ wpc' = "returned"
            /\ UNCHANGED web_logged
    /\ UNCHANGED <<web_call, web_exception, web_returned>>
    /\ UNCHANGED notWeb

\* after the with statement: return [] of get, return
\* InternalStatus(status=BuildStatus()) of get_internal, None otherwise
WebAfter ==
    /\ wpc = "after"
    /\ web_returned' = IF web_call.method = "get" THEN ReturnList(<<>>)
                       ELSE IF web_call.method = "get_internal"
                       THEN ReturnStatus("unknown")
                       ELSE ReturnNone
    /\ wpc' = "returned"
    /\ UNCHANGED <<web_call, web_exception, web_raised, web_logged>>
    /\ UNCHANGED notWeb

\* the next call
WebDone ==
    /\ wpc = "returned"
    /\ wpc' = "idle"
    /\ web_call' = NoWebCall
    /\ web_exception' = "none"
    /\ web_raised' = FALSE
    /\ web_logged' = FALSE
    /\ web_returned' = NoReturn
    /\ UNCHANGED notWeb

WebNext == WebCall \/ WebRequest \/ WebExcept \/ WebAfter \/ WebDone

SpecWeb == Init /\ [][WebNext]_vars

\* ------------------------------------------------------------------------
\* Application.with_dependencies: add the missing dependencies from the AUR
\* ------------------------------------------------------------------------
\* missing_dependencies(with_dependencies.values()): the build dependencies
\* of the package passed in and of the packages fetched which neither are
\* known nor are packages of one of them
missing_dependencies ==
    LET satisfied_packages ==
            known_packages \cup UNION {with_dependencies[b].packages : b \in AurNames}
        wanted ==
            own_depends \cup UNION {with_dependencies[b].depends_build : b \in AurNames}
    IN  wanted \ satisfied_packages

\* with_dependencies(packages, process_dependencies=...): without the flag
\* the packages are returned as they are
WithDependencies ==
    /\ wdpc = "idle"
    /\ \E process \in BOOLEAN, known_names \in SUBSET AurNames,
          bases \in [AurNames -> AurNames],
          depends \in [AurNames -> SUBSET AurNames],
          own \in SUBSET AurNames :
         /\ process_dependencies' = process
         /\ known_packages' = known_names
         /\ aur_base' = bases
         /\ aur_depends' = depends
         /\ own_depends' = own
         /\ wdpc' = IF process THEN "check" ELSE "returned"
    /\ UNCHANGED <<with_dependencies, missing, with_result>>
    /\ UNCHANGED notWd

\* while missing := missing_dependencies(...): the loop goes on with the
\* missing names in the order of the dictionary, or ends
MissingDependencies ==
    /\ wdpc = "check"
    /\ IF missing_dependencies = {}
       THEN /\ wdpc' = "returned"
            /\ with_result' = {b \in AurNames : with_dependencies[b].present}
            /\ UNCHANGED missing
       ELSE /\ wdpc' = "fetch"
            /\ \E order \in OrdersOf(missing_dependencies) : missing' = order
            /\ UNCHANGED with_result
    /\ UNCHANGED <<process_dependencies, known_packages, aur_base, aur_depends,
                   own_depends, with_dependencies>>
    /\ UNCHANGED notWd

\* one pass of the for loop: the package is fetched and stored under its base
FromAur ==
    /\ wdpc = "fetch"
    /\ missing # <<>>
    /\ LET name == Head(missing)
           fetched == from_aur(name, aur_base[name], aur_depends[name])
       IN  with_dependencies' =
               [with_dependencies EXCEPT ![fetched.base] = fetched.package]
    /\ missing' = Tail(missing)
    /\ wdpc' = IF Tail(missing) = <<>> THEN "check" ELSE "fetch"
    /\ UNCHANGED <<process_dependencies, known_packages, aur_base, aur_depends,
                   own_depends, with_result>>
    /\ UNCHANGED notWd

\* the next call
WithDependenciesAgain ==
    /\ wdpc = "returned"
    /\ wdpc' = "idle"
    /\ process_dependencies' = FALSE
    /\ known_packages' = {}
    /\ aur_base' = [n \in AurNames |-> n]
    /\ aur_depends' = [n \in AurNames |-> {}]
    /\ own_depends' = {}
    /\ with_dependencies' = [b \in AurNames |-> NoPackage]
    /\ missing' = <<>>
    /\ with_result' = {}
    /\ UNCHANGED notWd

WithDependenciesNext ==
    WithDependencies \/ MissingDependencies \/ FromAur \/ WithDependenciesAgain

SpecWithDependencies == Init /\ [][WithDependenciesNext]_vars

\* the method keeps running: a step which can be taken is taken
SpecWithDependenciesFair ==
    SpecWithDependencies /\ WF_vars(WithDependenciesNext)

\* ------------------------------------------------------------------------
\* Properties of the resolver
\* ------------------------------------------------------------------------
\* base p declares a name built by the other base q
DependsOn(p, q) == p # q /\ dependencies[p] \cap {q} # {}

\* base p has no dependency built by another input package
Independent(p) == \A q \in Bases : ~DependsOn(p, q)

\* the package is in the level of the result with this (1-based) number
InLevel(base, i) == \E k \in DOMAIN result[i] : result[i][k] = base

\* q is in a level of the result strictly before every level holding p
Earlier(q, p) ==
    \A i \in DOMAIN result :
        InLevel(p, i) => \E j \in DOMAIN result : j < i /\ InLevel(q, j)

\* C1: in the returned levels, whenever the dependency set of p holds a name
\* built by a different input package q, q is in a strictly earlier level than p
C1_LevelingValid ==
    tpc = "done" => \A p, q \in Bases : DependsOn(p, q) => Earlier(q, p)

\* a chain of three packages was resolved into three levels
C1_Witness ==
    /\ tpc = "done"
    /\ Len(result) = NumPkgs
    /\ \E p, q \in Bases : DependsOn(p, q) /\ InLevel(p, Len(result))

\* C2: a peeling step that finds no root while packages remain raises an error:
\* it never adds an empty level and goes on
C2_StallRaises ==
    tpc = "peel" => \A i \in DOMAIN unsorted : unsorted[i] # <<>>

\* every level of the result is in ascending order of base
Ascending == \A i \in DOMAIN result :
                \A k, l \in DOMAIN result[i] : k < l => result[i][k] < result[i][l]

\* C3: resolving the same packages with the same dependency data, supplied in
\* any order, returns the same levels in the same order, each level ascending
\* by base
C3_Deterministic ==
    tpc = "done" => /\ Ascending
                    /\ previous # <<>> => result = previous[1]

\* a second resolution of packages supplied in another order has returned
\* more than one level, one of them with two packages
C3_Witness ==
    /\ tpc = "done"
    /\ previous # <<>>
    /\ leaves # [i \in Bases |-> i]
    /\ Len(result) > 1
    /\ \E i \in DOMAIN result : Len(result[i]) > 1

\* C4 as stated: every package without a dependency built by another input
\* package is in the first returned level
C4_RootsInFirstLevel ==
    tpc = "done" => \A p \in Bases : Independent(p) => InLevel(p, 1)

\* C4 as amended: such a package stays in the first returned level exactly when
\* the peeling gave a single level or a package of the second peeled level
\* depends on it; otherwise the deferral pass moved it to a later level
C4_RootsFirstUnlessDeferred ==
    tpc = "done" =>
        \A p \in Bases : Independent(p) =>
            (InLevel(p, 1) <=>
                \/ rest(leaves) = <<>>
                \/ \E q \in Range(roots(rest(leaves))) : DependsOn(q, p))

\* an independent package was deferred while another one stayed in level one
C4_Witness ==
    /\ tpc = "done"
    /\ \E p, q \in Bases : /\ Independent(p) /\ ~InLevel(p, 1)
                            /\ Independent(q) /\ InLevel(q, 1)

\* the deferral pass is about to handle the level with this (1-based) number
Deferring(n) == tpc = "defer" /\ current_num + 1 = n /\ n < Len(unsorted)

\* the leaf is required by a package placed in the level
RequiredBy(leaf, level) == \E other \in Range(level) : DependsOn(other, leaf)

\* C5 as stated: in the deferral pass a leaf that is required by a package
\* already placed in the next level is moved to that next level
C5_RequiredLeafMoved ==
    [][\A n \in 1..NumPkgs : Deferring(n) =>
          \A leaf \in Range(unsorted[n]) :
              RequiredBy(leaf, unsorted[n + 1]) => leaf \in Range(unsorted'[n + 1])]_vars

\* C5 as amended: a leaf that is NOT required by any package already placed in
\* the next level is moved to that next level, a required leaf stays
C5_UnrequiredLeafMoved ==
    [][\A n \in 1..NumPkgs : Deferring(n) =>
          \A leaf \in Range(unsorted[n]) :
              IF RequiredBy(leaf, unsorted[n + 1])
              THEN leaf \in Range(unsorted'[n]) /\ leaf \notin Range(unsorted'[n + 1])
              ELSE leaf \in Range(unsorted'[n + 1]) /\ leaf \notin Range(unsorted'[n])]_vars

\* the first level was handled: one leaf stayed, an independent one was moved
C5_Witness ==
    /\ tpc = "defer"
    /\ current_num = 1
    /\ unsorted[1] # <<>>
    /\ \E leaf \in Range(unsorted[2]) : Independent(leaf)

\* C6: a package whose dependency set holds a name that another input package
\* only provides is placed in a later level than the provider
C6_ProvidesOrdered ==
    tpc = "done" =>
        \A p, q \in Bases :
            (p # q /\ provider = q /\ Virtual \in dependencies[p]) => Earlier(q, p)

\* C7: a leaf which depends on its own packages but on no package of another
\* remaining leaf is a root of the peeling step and is placed in the new level
C7_OwnPackagesIgnored ==
    [][(tpc = "peel" /\ unprocessed # <<>>) =>
          \A leaf \in Range(unprocessed) :
              (/\ dependencies[leaf] \cap packages(leaf) # {}
               /\ \A other \in Range(unprocessed) : ~DependsOn(leaf, other))
              => /\ unsorted' # <<>>
                 /\ leaf \in Range(unsorted'[Len(unsorted')])]_vars

\* ------------------------------------------------------------------------
\* Properties of the update loop
\* ------------------------------------------------------------------------
\* positions in the log of the calls of a kind made for a level
Calls(kind, level) ==
    {i \in DOMAIN log : log[i].kind = kind /\ log[i].level = level}

\* a level is processed as: builds, repository update, report, sync
Rank(kind) ==
    CASE kind = "build" -> 0 [] kind = "update" -> 1 [] kind = "report" -> 2
      [] kind = "sync" -> 3

\* report and sync were called for the level
Finalized(level) == Calls("report", level) # {} /\ Calls("sync", level) # {}

Outcome(level, ok) ==
    {log[i].base : i \in {j \in Calls("build", level) : log[j].ok = ok}}

Acquires(r) == hpc[r] = "lock" /\ hpc'[r] # "lock"

\* the acquisition of the run fails with DuplicateRun and changes no lock
FailsDuplicate(r) ==
    /\ hpc'[r] = "returned"
    /\ raised'[r] = "DuplicateRun"
    /\ returned'[r] = FALSE
    /\ lock_file' = lock_file

\* C10: for one (root, architecture) pair at most one run holds the lock; an
\* acquisition attempted while another run holds it fails at once with
\* DuplicateRun, never blocking, unless force is given; an acquisition
\* attempted when no run holds the lock succeeds
C10_LockExclusive ==
    /\ [](\A a \in Architectures :
            ~overridden[a] => \A r, o \in Holders(a) : r = o)
    /\ [](\A r \in Runs : hpc[r] = "lock" => ENABLED Enter(r))
    /\ [][\A r \in Runs : Acquires(r) =>
            LET held == Holders(architecture[r]) # {}
            IN  /\ (held /\ ~force[r] /\ ~overridden[architecture[r]])
                      => FailsDuplicate(r)
                /\ (~held \/ force[r])
                      => hpc'[r] = "run" /\ lock_file'[architecture[r]]]_vars

\* a run was refused with DuplicateRun while another one holds the lock of
\* the same architecture
C10_Witness ==
    \E r, o \in Runs :
        /\ r # o
        /\ architecture[r] = architecture[o]
        /\ hpc[o] = "run"
        /\ ~overridden[architecture[o]]
        /\ hpc[r] = "returned"
        /\ raised[r] = "DuplicateRun"


\* C11: the lock acquired by Handler.call is released on every exit path:
\* when call has returned, with True or with False, the exit of every lock it
\* entered was executed exactly once, and the body runs only between the
\* enter and the exit of the lock
C11_LockReleased ==
    \A r \in Runs :
        /\ hpc[r] = "returned" /\ entered[r] > 0 => entered[r] = 1 /\ exited[r] = 1
        /\ hpc[r] = "run" \/ body[r] > 0 => entered[r] = 1
        /\ hpc[r] = "run" => exited[r] = 0
        /\ exited[r] <= entered[r]

\* a call whose body raised has returned False after the exit of its lock
C11_Witness ==
    \E r \in Runs : /\ hpc[r] = "returned"
                     /\ raised[r] = "Exception"
                     /\ body[r] = 1
                     /\ exited[r] = 1
                     /\ returned[r] = FALSE

\* C12: when the lock cannot be acquired or the configuration cannot be
\* loaded, the body is never executed, the step changes no lock, and
\* Handler.call returns False instead of raising
C12_NoBodyWithoutLock ==
    /\ [](\A r \in Runs : hpc[r] = "returned" /\ entered[r] = 0 =>
              /\ body[r] = 0
              /\ raised[r] \in {"Exception", "DuplicateRun"}
              /\ returned[r] = FALSE)
    /\ [][\A r \in Runs :
              hpc[r] \in {"configuration", "lock"} /\ hpc'[r] = "returned" =>
                  lock_file' = lock_file /\ entered'[r] = 0]_vars

\* one call was refused the lock and another could not load its configuration;
\* both have returned False
C12_Witness ==
    \E r, q \in Runs : /\ hpc[r] = "returned" /\ raised[r] = "DuplicateRun"
                        /\ hpc[q] = "returned" /\ raised[q] = "Exception"
                        /\ entered[q] = 0
                        /\ returned[r] = FALSE /\ returned[q] = FALSE

\* C13: when Handler.execute returns, the command was run once for every
\* requested architecture and for no other, also when the run for another
\* architecture failed, and the value returned is 0 exactly when the runs of
\* all requested architectures returned True, otherwise 1
C13_ExecuteAllArchitectures ==
    epc = "done" =>
        /\ \A a \in Architectures : called[a] = IF a \in requested THEN 1 ELSE 0
        /\ \A a \in requested : \E v \in BOOLEAN : <<a, v>> \in collected
        /\ exit_code \in {0, 1}
        /\ exit_code = 0 <=> \A a \in requested : <<a, TRUE>> \in collected

\* execute returned 1 for two architectures: the run of one of them failed,
\* the run of the other succeeded
C13_Witness ==
    /\ epc = "done"
    /\ exit_code = 1
    /\ \E a, b \in requested : <<a, FALSE>> \in collected /\ <<b, TRUE>> \in collected

\* the step handles a well-formed status update without package data
UpdateWithoutPackage(base) ==
    /\ request' # request \/ response' # response
    /\ request' = [op |-> "post", base |-> base, package |-> FALSE, valid |-> TRUE]

\* C14: a status update without package data for a base which is not in the
\* registry, never added or removed since, fails with the unknown-package
\* error and leaves the registry without an entry for the base
C14_UnknownUpdateFails ==
    [][\A base \in KnownBases :
          UpdateWithoutPackage(base) /\ known[base] = <<>> =>
              /\ error' = "UnknownPackage"
              /\ response' = "HTTPBadRequest"
              /\ known'[base] = <<>>]_vars

\* the update of a base which was added and removed again has failed
C14_Witness ==
    \E base \in KnownBases :
        /\ request = [op |-> "post", base |-> base, package |-> FALSE, valid |-> TRUE]
        /\ error = "UnknownPackage"
        /\ written[base] # <<>>
        /\ known[base] = <<>>

PkgverOlder(a, b) ==
    \/ Len(a) < Len(b) /\ \A i \in DOMAIN a : a[i] = b[i]
    \/ \E i \in DOMAIN a \cap DOMAIN b :
           a[i] < b[i] /\ \A j \in 1..(i - 1) : a[j] = b[j]

\* the first version is strictly older than the second in the order of
\* epoch, then pkgver, then pkgrel
Older(a, b) ==
    \/ a.epoch < b.epoch
    \/ a.epoch = b.epoch /\ PkgverOlder(a.pkgver, b.pkgver)
    \/ a.epoch = b.epoch /\ a.pkgver = b.pkgver /\ a.pkgrel < b.pkgrel

\* C20: a package is classified as outdated exactly when its local version is
\* strictly older than the remote version in the order of epoch, pkgver and
\* pkgrel; an equal or newer local version is not outdated
C20_OutdatedIffOlder ==
    vpc = "compared" => (outdated <=> Older(self_version, remote_version))

\* local 1.0-1 against remote 1.0-2 was classified as outdated
C20_Witness ==
    /\ vpc = "compared"
    /\ self_version = [epoch |-> 0, pkgver |-> <<1, 0>>, pkgrel |-> 1]
    /\ remote_version = [epoch |-> 0, pkgver |-> <<1, 0>>, pkgrel |-> 2]
    /\ outdated

\* the status writes of the running detection for the base
WritesOf(base) == {i \in DOMAIN statuses : statuses[i][1] = base}

\* the running detection wrote exactly one status for the base, this one
WrittenOnce(base, status) ==
    /\ Cardinality(WritesOf(base)) = 1
    /\ \A i \in WritesOf(base) : statuses[i][2] = status

\* the upstream lane of the running detection has just returned
AurLaneReturned == gpc = "manual" /\ ~no_aur

\* C16: in the upstream lane every checked package whose lookup succeeded gets
\* one status write that matches its outcome, pending if its local version is
\* older than the remote version and success if it is not, and the returned
\* list holds exactly the packages written as pending
C16_StatusMatchesOutcome ==
    AurLaneReturned =>
        /\ \A base \in CheckedBases : remotes[base] # <<>> =>
               IF Older(local_version[base], remotes[base][1])
               THEN WrittenOnce(base, "pending")
               ELSE WrittenOnce(base, "success")
        /\ Range(aur_updates) =
               {base \in CheckedBases : \E i \in WritesOf(base) : statuses[i][2] = "pending"}
        /\ Len(aur_updates) = Cardinality(Range(aur_updates))

\* the lane has returned one package it wrote as pending and has written the
\* other one, which is not older than its remote, as success
C16_Witness ==
    /\ AurLaneReturned
    /\ \E base, other \in CheckedBases :
          /\ WrittenOnce(base, "pending") /\ aur_updates = <<base>>
          /\ WrittenOnce(other, "success")

C18_SameCandidates ==
    gpc = "done" /\ first_run # <<>> => updates = first_run[1].updates

\* C18 as amended: the second run returns the upstream candidates of the first
\* run, in the same order; the manually queued packages are returned by the
\* first run only, because that run clears the queue, so the two lists are
\* identical exactly when the first run returned no queued package
C18_SameUpstreamCandidates ==
    gpc = "done" /\ first_run # <<>> =>
        /\ updates = first_run[1].aur_updates
        /\ first_run[1].updates = first_run[1].aur_updates \o first_run[1].manual_updates
        /\ updates = first_run[1].updates <=> first_run[1].manual_updates = <<>>

\* the first run returned an outdated package and a queued one, the second
\* run the outdated package only
C18_Witness ==
    /\ gpc = "done"
    /\ first_run # <<>>
    /\ first_run[1].aur_updates # <<>>
    /\ first_run[1].manual_updates # <<>>
    /\ updates = first_run[1].aur_updates

\* C19: the list returned by get_updates holds every package base at most
\* once, also when more than one lane reports the base
C19_NoDuplicates ==
    gpc = "done" =>
        \A i, j \in DOMAIN updates : i # j => updates[i] # updates[j]

\* an archive of the local package was built within the freshness window:
\* more recently than the time of the check minus the allowed age
BuiltWithinWindow == \E date \in build_dates : date + vcs_allowed_age > utcnow

\* C21: for a version-controlled package built within the freshness window the
\* outdated check compares against the stored remote version and refreshes no
\* sources; the version is recomputed only when the package is not within the
\* window and version calculation is enabled
C21_FreshVersionTrusted ==
    vpc = "compared" /\ remote_is_vcs =>
        /\ BuiltWithinWindow =>
              ~refreshed /\ ~calculated /\ remote_version = stored_version
        /\ refreshed <=> calculate_version /\ ~BuiltWithinWindow
        /\ outdated <=> Older(self_version, remote_version)

\* a VCS package built within the window was compared to the stored version
\* although the calculation was enabled; its age allowed for it
C21_Witness ==
    /\ vpc = "compared"
    /\ remote_is_vcs
    /\ calculate_version
    /\ vcs_allowed_age > 0
    /\ BuiltWithinWindow
    /\ \E date \in build_dates : date < utcnow
    /\ ~refreshed
    /\ remote_version = stored_version

\* C22: an update which found nothing to build exits with status 0 unless
\* the exit-code flag was set; an update is turned into a failure (status 1)
\* exactly when the flag is set and no package was built
C22_EmptyFailsOnlyWithFlag ==
    apc = "exited" /\ args_now /\ add_raised # "Exception" =>
        /\ to_build = {} /\ ~args_exit_code => add_status = 0
        /\ add_status = 1 <=> args_exit_code /\ add_result.succeeded = {}
        /\ add_status \in {0, 1}

\* an update with nothing to build has exited with status 0, the flag unset
C22_Witness ==
    /\ apc = "exited"
    /\ args_now
    /\ to_build = {}
    /\ ~args_exit_code
    /\ add_raised = "none"
    /\ add_status = 0

\* the migrations committed are 0, 1, ... up to the stored version, each once
\* and in ascending order
AppliedUpToVersion ==
    /\ Len(applied) = user_version
    /\ \A i \in 1..Len(applied) : applied[i] = i - 1

\* the open transaction holds the migrations from the stored version on, in
\* ascending order
TransactionFromVersion ==
    \A i \in 1..Len(tx_applied) : tx_applied[i] = user_version + i - 1

\* a step of a run: the version never decreases; a run which raises leaves
\* the version and the migrations committed as they were; a run which
\* returns after applying has committed all of them and stored their number
MigrationStep ==
    /\ user_version' >= user_version
    /\ migration_raised' =>
          user_version' = user_version /\ applied' = applied /\ tx_applied' = <<>>
    /\ mpc = "applying" /\ mpc' = "returned" /\ ~migration_raised' =>
          /\ user_version' = expected_version
          /\ applied' = applied \o tx_applied
          /\ Len(applied') = expected_version
    /\ mpc' = "applying" => user_version' = user_version /\ applied' = applied

\* C23: a migration run is all-or-nothing and gated by the stored version:
\* only the migrations at or above the stored version are applied, in
\* ascending order, and the version becomes the number of migrations; a
\* failure rolls everything back, keeps the version and raises; the stored
\* version never decreases
C23_MigrationsAtomic ==
    /\ [](AppliedUpToVersion /\ TransactionFromVersion)
    /\ [][MigrationStep]_vars

\* a run failed after it had applied a migration on top of an earlier
\* version, and left the database at that version
C23_Witness ==
    /\ mpc = "returned"
    /\ migration_raised
    /\ user_version > 0
    /\ next_index > user_version
    /\ expected_version > user_version
    /\ Len(applied) = user_version

\* C24: every package multisearch returns is in the search result of each
\* term of at least three characters
C24_MatchesEveryTerm ==
    spc = "returned" =>
        \A i \in 1..Len(keywords) :
            keywords[i].long => search_result \subseteq keywords[i].matches

\* C25: at the teardown of a loader the on_stop handlers run if and only if
\* on_start was run on that loader before; they run for every trigger, and
\* not before the teardown
C25_StopIffStarted ==
    /\ [](\A l \in Loaders :
            /\ lpc[l] = "deleted" =>
                  /\ stopped_at_exit[l] # {} <=> started[l] # {}
                  /\ stopped_at_exit[l] \in {{}, Triggers}
            /\ lpc[l] # "deleted" => stopped_at_exit[l] = {})
    /\ [][\A l \in Loaders :
            lpc[l] = "created" /\ lpc'[l] = "deleted" =>
                /\ started'[l] = started[l]
                /\ stopped_at_exit'[l] = started[l]]_vars

\* one loader was torn down after on_start and stopped its triggers, the
\* other was torn down without on_start and stopped none
C25_Witness ==
    \E l \in Loaders, other \in Loaders :
        /\ lpc[l] = "deleted" /\ started[l] = Triggers
        /\ stopped_at_exit[l] = Triggers
        /\ lpc[other] = "deleted" /\ started[other] = {}
        /\ stopped_at_exit[other] = {}

\* the depends known for a name: those of the sync database package when it
\* has or provides the name, else those of the repository package when it
\* has or provides it, else none
KnownDepends(n) ==
    IF n = dep_entries[2].name \/ n \in dep_entries[2].provides
    THEN dep_entries[2].depends
    ELSE IF n = dep_entries[1].name \/ n \in dep_entries[1].provides
    THEN dep_entries[1].depends
    ELSE {}

\* a set of names which holds the direct dependencies and, with every name,
\* the depends known for it
ClosedUnderDepends(S) ==
    /\ self_depends \subseteq S
    /\ \A n \in S : KnownDepends(n) \subseteq S

\* C26: full_depends ends after a bounded number of passes, cycles or not,
\* and returns exactly the transitive closure of the direct dependencies
\* over the known dependency map (the least closed set), sorted
C26_FullDependsClosure ==
    /\ fpc # "idle" => passes <= Cardinality(DepNames) + 1
    /\ fpc = "loop" => ENABLED (FullDependsPass \/ FullDependsReturn)
    /\ fpc = "returned" =>
          LET returned_names == Range(full_depends_result)
          IN  /\ ClosedUnderDepends(returned_names)
              /\ \A S \in SUBSET DepNames :
                    ClosedUnderDepends(S) => returned_names \subseteq S
              /\ Len(full_depends_result) = Cardinality(returned_names)
              /\ \A i \in 1..Len(full_depends_result) - 1 :
                    full_depends_result[i] < full_depends_result[i + 1]

\* two names depend on each other; the call took more than one pass and
\* returned both although only one is a direct dependency
C26_Witness ==
    /\ fpc = "returned"
    /\ Cardinality(self_depends) = 1
    /\ Len(full_depends_result) = 2
    /\ passes >= 2
    /\ \A n \in DepNames : KnownDepends(n) = DepNames \ {n}

\* a call of the context: a value once stored stays; a strict set of a key
\* which is set raises KeyError; any other set of a value of the wrong type
\* raises ValueError; a non-strict set of a key which is set stores nothing;
\* a set of a key which is not set stores the value; a get which returns
\* returns the first value stored
ContextStep ==
    /\ \A k \in ContextKeys : content[k] # NoValue => content'[k] = content[k]
    /\ ctx_call'.op = "set" =>
          LET k == ctx_call'.key
              wrong == ctx_call'.value.type # ctx_call'.return_type
          IN  /\ ctx_call'.strict /\ content[k] # NoValue <=> ctx_raised' = "KeyError"
              /\ ~(ctx_call'.strict /\ content[k] # NoValue) /\ wrong
                    <=> ctx_raised' = "ValueError"
              /\ ctx_raised' # "none" => content' = content
              /\ ctx_raised' = "none" /\ content[k] = NoValue =>
                    content'[k] = ctx_call'.value
              /\ \A other \in ContextKeys \ {k} : content'[other] = content[other]
    /\ ctx_call'.op = "get" =>
          /\ content' = content
          /\ ctx_raised' = "none" =>
                /\ ctx_got' = first_stored[ctx_call'.key]
                /\ ctx_got' # NoValue

\* C27: once a key of the global context is set its value never changes: a
\* strict set of it raises KeyError, a non-strict set is ignored, a value of
\* the wrong type raises ValueError, and get returns the first value stored
C27_ContextWriteOnce ==
    /\ [](\A k \in ContextKeys : content[k] = first_stored[k])
    /\ [][ContextStep]_vars

\* a non-strict set of another value of the right type on a key which is set
\* returned and left the first value in place
C27_Witness ==
    /\ ctx_call.op = "set"
    /\ ~ctx_call.strict
    /\ ctx_raised = "none"
    /\ content[ctx_call.key] # NoValue
    /\ content[ctx_call.key] # ctx_call.value
    /\ content[ctx_call.key].type = ctx_call.value.type

\* C28: the methods of the web client which send a request return normally
\* whatever fails in the request or in the answer; after a failure get
\* returns the empty list, get_internal the status Unknown, the others None
C28_WebFailuresContained ==
    wpc = "returned" =>
        /\ ~web_raised
        /\ web_call.failure # "none" =>
              /\ web_call.method = "get" => web_returned = ReturnList(<<>>)
              /\ web_call.method = "get_internal" =>
                    web_returned = ReturnStatus("unknown")
              /\ web_call.method \notin {"get", "get_internal"} =>
                    web_returned = ReturnNone
        /\ web_call.failure = "none" /\ web_call.method = "get" =>
              Range(web_returned.list) = web_call.packages

\* get_internal met an answer it could not read, and returned Unknown
\* although the service reported another status
C28_Witness ==
    /\ wpc = "returned"
    /\ web_call.method = "get_internal"
    /\ web_call.failure = "content"
    /\ web_call.status # "unknown"
    /\ web_returned = ReturnStatus("unknown")
    /\ ~web_raised

\* C29: the loop of with_dependencies terminates: once it has started to
\* look for missing dependencies the method returns
C29_WithDependenciesReturns == (wdpc = "check") ~> (wdpc = "returned")

\* the places a package base holds in a list of levels
Places(levels, base) ==
    UNION {{<<i, k>> : k \in {l \in DOMAIN levels[i] : levels[i][l] = base}} :
           i \in DOMAIN levels}

\* C30: the levels returned are a partition of the input packages: every
\* input package is in exactly one level, once; moving leaves to the next
\* level neither drops nor duplicates one; no returned level is empty
C30_LevelsPartition ==
    /\ [](tpc = "done" =>
            /\ \A base \in Bases : Cardinality(Places(result, base)) = 1
            /\ \A i \in DOMAIN result :
                  result[i] # <<>> /\ Range(result[i]) \subseteq Bases)
    /\ [][tpc = "defer" /\ tpc' = "defer" =>
            \A base \in Bases :
                Cardinality(Places(unsorted', base)) =
                    Cardinality(Places(unsorted, base))]_vars

\* a package without dependencies was moved out of the first level, and the
\* levels returned still hold every package once
C30_Witness ==
    /\ tpc = "done"
    /\ Len(result) >= 2
    /\ \E base \in Bases : dependencies[base] = {} /\ ~InLevel(base, 1)
    /\ \A base \in Bases : Cardinality(Places(result, base)) = 1
====
